---- MODULE Spec2Model ----
(***************************************************************************)
(* A model of the cgfs renderer (matthew-ch/cgfs): the ray tracer's        *)
(* recursive trace_ray, the scene and object hit tests, the lights, the    *)
(* canvas and its multi-threaded render, the depth-buffered fill, and the  *)
(* rasterizer's matrices, clipping and triangle fill.  Each part has its   *)
(* own specification (SpecSphere, SpecCsg, SpecNested, SpecCanvas,         *)
(* SpecRender, SpecTrace, SpecScan, SpecRefraction, SpecMesh, SpecSolve,   *)
(* SpecLight, SpecInterpolate, SpecClip, SpecCull, SpecMatrix, SpecRaster, *)
(* SpecShade, SpecFill) over the variables of that part; the other         *)
(* variables keep their initial values.                                    *)
(*                                                                         *)
(* Numbers.  The program computes in f64.  The model computes in exact     *)
(* rational arithmetic: a number is a record [n, d] in lowest terms with   *)
(* d > 0; +infinity, -infinity and NaN are [1, 0], [-1, 0] and [0, 0].     *)
(* The inputs of the geometric specifications are drawn from integer grids *)
(* and kept to the cases whose discriminant is negative or a perfect       *)
(* square, so that every root the model handles is rational and exact.     *)
(* A ray's direction is a nonzero vector.                                  *)
(***************************************************************************)
EXTENDS Integers, Sequences, FiniteSets, TLC

(***************************************************************************)
(* Bounds of the model.                                                    *)
(***************************************************************************)
\* Grid coordinates of ray directions and sphere centres lie in -MaxCoord..MaxCoord.
MaxCoord == 1
\* Sphere radii lie in 1..MaxRadius.
MaxRadius == 2
\* Canvas widths and heights lie in 0..MaxDim.
MaxDim == 2
\* The number of canvas operations after construction.
MaxOps == 2
\* render_mth is called with 0..MaxThreads threads.
MaxThreads == 3
\* trace_ray is called with depth 0..MaxDepth.
MaxDepth == 2
\* A polyhedron's mesh holds up to MaxTriangles triangles.
MaxTriangles == 2
\* Scene::hit_test scans scenes of up to MaxObjects objects.
MaxObjects == 2
\* compose is given up to MaxMatrices matrices.
MaxMatrices == 3
\* clip_model is given up to MaxPlanes clipping planes.
MaxPlanes == 2

(***************************************************************************)
(* Optional values: std::option::Option.                                   *)
(***************************************************************************)
None == << >>
Some(v) == << v >>
IsSome(o) == Len(o) = 1
IsNone(o) == Len(o) = 0
Unwrap(o) == o[1]

(***************************************************************************)
(* Exact arithmetic standing for f64.                                      *)
(***************************************************************************)
Abs(i) == IF i < 0 THEN -i ELSE i

RECURSIVE GCD(_, _)
GCD(a, b) == IF b = 0 THEN a ELSE GCD(b, a % b)

Sign(i) == IF i < 0 THEN -1 ELSE IF i > 0 THEN 1 ELSE 0

\* The number n/d in lowest terms with a positive denominator; as in f64, a
\* nonzero number over zero is an infinity and zero over zero is NaN.
Rat(n, d) ==
    CHOOSE r \in { IF p[2] = 0 THEN [n |-> Sign(p[1]), d |-> 0]
                   ELSE LET g == GCD(Abs(p[1]), Abs(p[2]))
                            s == IF p[2] < 0 THEN -1 ELSE 1
                        IN  [n |-> (s * p[1]) \div g, d |-> (s * p[2]) \div g] :
                   p \in { << n, d >> } } : TRUE

Int2R(i) == [n |-> i, d |-> 1]
Zero == Int2R(0)
One == Int2R(1)
PosInf == [n |-> 1, d |-> 0]
NegInf == [n |-> -1, d |-> 0]
NaN == [n |-> 0, d |-> 0]
IsNaN(x) == x.n = 0 /\ x.d = 0
IsFinite(x) == x.d # 0

\* The sum over the least common denominator.
RAdd(x, y) ==
    CHOOSE r \in { IF p[1].d = 0 /\ p[2].d = 0
                   THEN IF p[1].n = p[2].n THEN p[1] ELSE NaN
                   ELSE LET g == GCD(p[1].d, p[2].d)
                        IN  Rat(p[1].n * (p[2].d \div g) + p[2].n * (p[1].d \div g),
                                (p[1].d \div g) * p[2].d) :
                   p \in { << x, y >> } } : TRUE
RNeg(x) == [n |-> 0 - x.n, d |-> x.d]
RSub(x, y) == RAdd(x, RNeg(y))
RMul(x, y) == Rat(x.n * y.n, x.d * y.d)
RDiv(x, y) == Rat(x.n * y.d, x.d * y.n)
\* Comparisons: every comparison with NaN is false.
RLt(x, y) ==
    /\ ~IsNaN(x)
    /\ ~IsNaN(y)
    /\ IF x.d = 0 /\ y.d = 0 THEN x.n < y.n ELSE x.n * y.d < y.n * x.d
RLe(x, y) ==
    /\ ~IsNaN(x)
    /\ ~IsNaN(y)
    /\ IF x.d = 0 /\ y.d = 0 THEN x.n <= y.n ELSE x.n * y.d <= y.n * x.d
RGt(x, y) == RLt(y, x)
RGe(x, y) == RLe(y, x)

\* The integer square root (floor) of n >= 0.
RECURSIVE ISqrt(_)
ISqrt(n) ==
    IF n < 2 THEN n
    ELSE LET r == 2 * ISqrt(n \div 4)
         IN  IF (r + 1) * (r + 1) <= n THEN r + 1 ELSE r
IsSquare(n) == n >= 0 /\ ISqrt(n) * ISqrt(n) = n
IsRSquare(x) == IsSquare(x.n) /\ IsSquare(x.d)
\* The least power of two k, from k on, for which n \div k is below 2048.
RECURSIVE ScaleFor(_, _)
ScaleFor(n, k) == IF n \div k < 2048 THEN k ELSE ScaleFor(n, 2 * k)

\* f64::sqrt: NaN below zero; exact when x is the square of a rational, and
\* otherwise rounded down to a multiple of 1/(16 x.d), as f64 rounds to a nearby
\* value; numerator and denominator are first cut to 11 bits when their
\* product would not fit.
RSqrt(x) ==
    IF x.n < 0 THEN NaN
    ELSE IF x.d = 0 THEN x
    ELSE IF IsRSquare(x) THEN Rat(ISqrt(x.n), ISqrt(x.d))
    ELSE IF x.n <= 8388607 \div x.d THEN Rat(ISqrt(x.n * x.d * 256), x.d * 16)
    ELSE LET k == ScaleFor(IF x.n > x.d THEN x.n ELSE x.d, 1)
             n == x.n \div k
             d == IF x.d \div k = 0 THEN 1 ELSE x.d \div k
         IN  Rat(ISqrt(n * d * 256), d * 16)

(***************************************************************************)
(* HomogeneousCoordinate (Point and Vector): <<x, y, z, w>>.               *)
(***************************************************************************)
Pt(x, y, z) == << Int2R(x), Int2R(y), Int2R(z), One >>
Vec(x, y, z) == << Int2R(x), Int2R(y), Int2R(z), Zero >>

HDot(u, v) ==
    RAdd(RAdd(RMul(u[1], v[1]), RMul(u[2], v[2])),
         RAdd(RMul(u[3], v[3]), RMul(u[4], v[4])))
HAdd(u, v) == [i \in 1..4 |-> RAdd(u[i], v[i])]
HSub(u, v) == [i \in 1..4 |-> RSub(u[i], v[i])]
HMul(u, k) == [i \in 1..4 |-> RMul(u[i], k)]
HNeg(u) == [i \in 1..4 |-> RNeg(u[i])]
HLength(u) == RSqrt(HDot(u, u))
\* Div<f64>: self * (1. / rhs).
HDiv(u, k) == HMul(u, RDiv(One, k))

(***************************************************************************)
(* Sphere::compute_ray_intersection.                                       *)
(***************************************************************************)
\* The coefficients of |O + tD - C|^2 = r^2 as a quadratic a t^2 + b t + c.
QuadA(sphere, ray) == HDot(ray.direction, ray.direction)
QuadB(sphere, ray) ==
    RMul(Int2R(2), HDot(HSub(ray.origin, sphere.center), ray.direction))
QuadC(sphere, ray) ==
    LET co == HSub(ray.origin, sphere.center)
    IN  RSub(HDot(co, co), RMul(sphere.radius, sphere.radius))
Discriminant(sphere, ray) ==
    LET a == QuadA(sphere, ray)
        b == QuadB(sphere, ray)
        c == QuadC(sphere, ray)
    IN  RSub(RMul(b, b), RMul(RMul(Int2R(4), a), c))

\* A mutant: the roots returned in the other order.
compute_ray_intersection_swapped(sphere, ray) ==
    LET a == QuadA(sphere, ray)
        b == QuadB(sphere, ray)
        discriminant == Discriminant(sphere, ray)
    IN  IF RLt(discriminant, Zero)
        THEN None
        ELSE Some(<< RDiv(RAdd(RNeg(b), RSqrt(discriminant)), RMul(Int2R(2), a)),
                     RDiv(RSub(RNeg(b), RSqrt(discriminant)), RMul(Int2R(2), a)) >>)

\* A mutant: the division by a instead of 2a.
compute_ray_intersection_halved(sphere, ray) ==
    LET a == QuadA(sphere, ray)
        b == QuadB(sphere, ray)
        discriminant == Discriminant(sphere, ray)
    IN  IF RLt(discriminant, Zero)
        THEN None
        ELSE Some(<< RDiv(RSub(RNeg(b), RSqrt(discriminant)), a),
                     RDiv(RAdd(RNeg(b), RSqrt(discriminant)), a) >>)

compute_ray_intersection(sphere, ray) ==
    LET a == QuadA(sphere, ray)
        b == QuadB(sphere, ray)
        discriminant == Discriminant(sphere, ray)
    IN  IF RLt(discriminant, Zero)
        THEN None
        ELSE Some(<< RDiv(RSub(RNeg(b), RSqrt(discriminant)), RMul(Int2R(2), a)),
                     RDiv(RAdd(RNeg(b), RSqrt(discriminant)), RMul(Int2R(2), a)) >>)

(***************************************************************************)
(* RangeInclusive<f64>::contains and the intervals the program queries.    *)
(***************************************************************************)
\* EPS = 0.001
EPS == Rat(1, 1000)
Contains(t_range, t) == RLe(t_range.start, t) /\ RLe(t, t_range.end)
\* 1.0..=INFINITY (primary rays), EPS..=INFINITY (secondary rays and
\* directional shadows), EPS..=1.0 (point-light shadows).
Ranges ==
    { [start |-> One, end |-> PosInf],
      [start |-> EPS, end |-> PosInf],
      [start |-> EPS, end |-> One] }

(***************************************************************************)
(* SphereObject::hit_test.                                                 *)
(***************************************************************************)
HitAt(ray, t, center, material) ==
    LET point == HAdd(ray.origin, HMul(ray.direction, t))
        normal == HSub(point, center)
    IN  [t |-> t, point |-> point, normal |-> HDiv(normal, HLength(normal)),
         material |-> material]

\* A mutant: the second root is tried before the first.
SphereObject_hit_test_far_first(object, ray, t_range) ==
    LET ts == compute_ray_intersection(object.sphere, ray)
    IN  IF IsNone(ts) THEN None
        ELSE IF Contains(t_range, Unwrap(ts)[2])
             THEN Some(HitAt(ray, Unwrap(ts)[2], object.sphere.center, object.material))
        ELSE IF Contains(t_range, Unwrap(ts)[1])
             THEN Some(HitAt(ray, Unwrap(ts)[1], object.sphere.center, object.material))
        ELSE None

SphereObject_hit_test(object, ray, t_range) ==
    LET ts == compute_ray_intersection(object.sphere, ray)
    IN  IF IsNone(ts) THEN None
        ELSE IF Contains(t_range, Unwrap(ts)[1])
             THEN Some(HitAt(ray, Unwrap(ts)[1], object.sphere.center, object.material))
        ELSE IF Contains(t_range, Unwrap(ts)[2])
             THEN Some(HitAt(ray, Unwrap(ts)[2], object.sphere.center, object.material))
        ELSE None

(***************************************************************************)
(* BooleanOperationSpheresObject::hit_test: two spheres combined by UNION, *)
(* INTERSECTION or SUBTRACTION.  A break point is (t, sphere): the ray     *)
(* parameter and the sphere ("a" or "b") whose centre gives the normal.    *)
(***************************************************************************)
Operations == { "UNION", "INTERSECTION", "SUBTRACTION" }

\* ta.unwrap_or((-INFINITY, -INFINITY))
RangeOf(ts) == IF IsNone(ts) THEN << NegInf, NegInf >> ELSE Unwrap(ts)

has_no_intersection(range_a, range_b) ==
    RGt(range_b[1], range_a[2]) \/ RGt(range_a[1], range_b[2])

\* A mutant: only one of the two ways of not overlapping is tested.
has_no_intersection_one_sided(range_a, range_b) ==
    RGt(range_b[1], range_a[2])

BP(t, s) == [t |-> t, sphere |-> s]

\* A mutant of the UNION arm: sphere_a's interval is always listed first.
union_break_points_a_first(range_a, range_b) ==
    IF has_no_intersection(range_a, range_b)
    THEN << BP(range_a[1], "a"), BP(range_a[2], "a"),
            BP(range_b[1], "b"), BP(range_b[2], "b") >>
    ELSE << IF RLt(range_a[1], range_b[1]) THEN BP(range_a[1], "a") ELSE BP(range_b[1], "b"),
            IF RLt(range_a[2], range_b[2]) THEN BP(range_b[2], "b") ELSE BP(range_a[2], "a") >>

union_break_points(range_a, range_b) ==
    IF has_no_intersection(range_a, range_b)
    THEN IF RGt(range_b[1], range_a[2])
         THEN << BP(range_a[1], "a"), BP(range_a[2], "a"),
                 BP(range_b[1], "b"), BP(range_b[2], "b") >>
         ELSE << BP(range_b[1], "b"), BP(range_b[2], "b"),
                 BP(range_a[1], "a"), BP(range_a[2], "a") >>
    ELSE << IF RLt(range_a[1], range_b[1]) THEN BP(range_a[1], "a") ELSE BP(range_b[1], "b"),
            IF RLt(range_a[2], range_b[2]) THEN BP(range_b[2], "b") ELSE BP(range_a[2], "a") >>

\* A mutant of the INTERSECTION arm: see has_no_intersection_one_sided.
intersection_break_points_one_sided(range_a, range_b) ==
    IF has_no_intersection_one_sided(range_a, range_b)
    THEN << >>
    ELSE << IF RLt(range_a[1], range_b[1]) THEN BP(range_b[1], "b") ELSE BP(range_a[1], "a"),
            IF RLt(range_a[2], range_b[2]) THEN BP(range_a[2], "a") ELSE BP(range_b[2], "b") >>

intersection_break_points(range_a, range_b) ==
    IF has_no_intersection(range_a, range_b)
    THEN << >>
    ELSE << IF RLt(range_a[1], range_b[1]) THEN BP(range_b[1], "b") ELSE BP(range_a[1], "a"),
            IF RLt(range_a[2], range_b[2]) THEN BP(range_a[2], "a") ELSE BP(range_b[2], "b") >>

\* A mutant of the SUBTRACTION arm: a nested sphere_b is treated as one that
\* reaches past sphere_a's end.
subtraction_break_points_truncating(range_a, range_b) ==
    IF has_no_intersection(range_a, range_b)
    THEN << BP(range_a[1], "a"), BP(range_a[2], "a") >>
    ELSE IF RGt(range_b[1], range_a[1])
    THEN << BP(range_a[1], "a"), BP(range_b[1], "b") >>
    ELSE IF RLt(range_b[2], range_a[2])
    THEN << BP(range_b[2], "b"), BP(range_a[2], "a") >>
    ELSE << >>

subtraction_break_points(range_a, range_b) ==
    IF has_no_intersection(range_a, range_b)
    THEN << BP(range_a[1], "a"), BP(range_a[2], "a") >>
    ELSE IF RGt(range_b[1], range_a[1])
    THEN IF RGe(range_b[2], range_a[2])
         THEN << BP(range_a[1], "a"), BP(range_b[1], "b") >>
         ELSE << BP(range_a[1], "a"), BP(range_b[1], "b"),
                 BP(range_b[2], "a"), BP(range_a[2], "a") >>
    ELSE IF RLt(range_b[2], range_a[2])
    THEN << BP(range_b[2], "b"), BP(range_a[2], "a") >>
    ELSE << >>

break_points(operation, range_a, range_b) ==
    CASE operation = "UNION" -> union_break_points(range_a, range_b)
      [] operation = "INTERSECTION" -> intersection_break_points(range_a, range_b)
      [] operation = "SUBTRACTION" -> subtraction_break_points(range_a, range_b)

\* A mutant: the normal is turned against the ray whatever the break point.
flip_whatever_i(i, f) == RGt(f, Zero)

\* if i % 2 == 1 { f < 0. } else { f > 0. }
flip(i, f) == IF i % 2 = 1 THEN RLt(f, Zero) ELSE RGt(f, Zero)

\* The hit made of break point number i (counted from 0, as enumerate() does).
BreakPointHit(object, ray, i, b) ==
    LET point == HAdd(ray.origin, HMul(ray.direction, b.t))
        center == IF b.sphere = "a" THEN object.sphere_a.center ELSE object.sphere_b.center
        normal == HSub(point, center)
        f == HDot(normal, ray.direction)
        oriented == IF flip(i, f) THEN HNeg(normal) ELSE normal
    IN  [t |-> b.t, point |-> point, normal |-> HDiv(oriented, HLength(oriented)),
         material |-> object.material]

\* The loop over the break points: the first one inside t_range wins.
RECURSIVE FirstBreakPointHit(_, _, _, _, _)
FirstBreakPointHit(object, ray, t_range, bps, k) ==
    IF k > Len(bps) THEN None
    ELSE IF Contains(t_range, bps[k].t)
         THEN Some(BreakPointHit(object, ray, k - 1, bps[k]))
         ELSE FirstBreakPointHit(object, ray, t_range, bps, k + 1)

\* The break points hit_test builds for this ray (none when both spheres are missed).
BooleanOperation_break_points(object, ray) ==
    LET ta == compute_ray_intersection(object.sphere_a, ray)
        tb == compute_ray_intersection(object.sphere_b, ray)
    IN  IF IsNone(ta) /\ IsNone(tb) THEN << >>
        ELSE break_points(object.operation, RangeOf(ta), RangeOf(tb))

BooleanOperation_hit_test(object, ray, t_range) ==
    LET ta == compute_ray_intersection(object.sphere_a, ray)
        tb == compute_ray_intersection(object.sphere_b, ray)
    IN  IF IsNone(ta) /\ IsNone(tb) THEN None
        ELSE FirstBreakPointHit(object, ray, t_range,
                                break_points(object.operation, RangeOf(ta), RangeOf(tb)), 1)

(***************************************************************************)
(* Color and ColorPack.  A Color is <<r, g, b>> of f32 channels.           *)
(***************************************************************************)
\* f32::round: to the nearest integer, halves away from zero.
RRound(x) ==
    IF x.n >= 0
    THEN (2 * x.n + x.d) \div (2 * x.d)
    ELSE 0 - ((2 * (0 - x.n) + x.d) \div (2 * x.d))

\* value.round().min(255.).max(0.) as u8
clamp_color_component_f(value) ==
    LET r == RRound(value)
        lo == IF r < 255 THEN r ELSE 255
    IN  IF lo > 0 THEN lo ELSE 0

clamp(color) == [i \in 1..3 |-> clamp_color_component_f(color[i])]

\* Color::red(), an out-of-gamut colour with halves, and Color::white() * 0.9.
Red == << Int2R(255), Zero, Zero >>
Vivid == << Rat(601, 2), Rat(-1, 2), Rat(255, 2) >>
Background == << Rat(459, 2), Rat(459, 2), Rat(459, 2) >>
Colors == { Red, Vivid }

(***************************************************************************)
(* Canvas: width, height, image_data and depth_buffer, both indexed from 0 *)
(* by y * width + x.                                                       *)
(***************************************************************************)
NewBuffer(n, v) == [i \in 0..(n - 1) |-> v]

\* A mutant: no assertion of its own, only the buffer's bounds check of the index.
index_unchecked(width, height, x, y) ==
    IF y * width + x < width * height THEN Some(y * width + x) ELSE None

\* Canvas::index: the index of (x, y), or None when the assertion fails.
index(width, height, x, y) ==
    IF x < width /\ y < height THEN Some(y * width + x) ELSE None

\* A mutant: every fragment passes, as if there were no depth buffer.
depth_test_always(stored, iz) == TRUE

\* A mutant: a fragment as near as the stored one also passes.
depth_test_or_equal(stored, iz) == RLe(stored, iz)

\* self.depth_buffer[index] < iz
depth_test(stored, iz) == RLt(stored, iz)

\* The canvas position of the centred coordinates (x, y) of put_pixel and
\* update_depth_buffer, or None when it is outside the canvas.
CanvasPosition(width, height, x, y) ==
    LET cx == x + width \div 2
        cy == height \div 2 - y
    IN  IF cx < 0 \/ cx >= width \/ cy < 0 \/ cy >= height
        THEN None
        ELSE Some(<< cx, cy >>)

(***************************************************************************)
(* State.                                                                  *)
(***************************************************************************)
VARIABLES
    \* The geometric operations: their inputs, the step taken, the results.
    geo_pc,         \* "input", then the operation that was applied
    geo_ray,        \* Ray { origin, direction }
    geo_a,          \* Sphere { center, radius }: the sphere, or sphere_a
    geo_b,          \* Sphere { center, radius }: sphere_b
    geo_op,         \* the BooleanOperation
    geo_range,      \* the queried t interval
    geo_roots,      \* the result of Sphere::compute_ray_intersection
    geo_breaks,     \* the break points built by the boolean hit_test
    geo_hit,        \* the result of a hit_test
    \* The canvas.
    cv_state,       \* "none" before Canvas::new, "live", or "aborted" by an assertion
    cv_width,
    cv_height,
    image_data,     \* Vec<ColorPack>
    depth_buffer,   \* Vec<f64>
    cv_ops,         \* operations applied since construction
    cv_last,        \* the last operation, with its arguments
    \* Canvas::render_mth: the calling thread and its workers.
    rm_pc,          \* "idle", "spawn", "join", "returned"
    rm_threads,     \* the threads argument
    rm_i,           \* the spawn loop's i
    rm_j,           \* how many handles of v have been joined
    rm_workers,     \* per worker: [state, x, y], its position in the two loops
    rm_writers,     \* per pixel index: the workers that wrote it, in order
    \* Scene::trace_ray: the call stack of one top-level call.
    tr_scene,       \* the materials of the scene's objects, in list order
    tr_n,           \* the depth argument of the top-level call
    tr_stack,       \* the suspended invocations, outermost first
    tr_call,        \* the call about to be executed, if any
    tr_ret,         \* the colour just returned, if any
    tr_invocations, \* how many times trace_ray has been entered
    tr_last,        \* what the last entered invocation saw and did
    tr_refraction,  \* Option: what the refraction branch last computed
    \* One call of a function of the program that keeps no state of its own.
    fn_pc,          \* "idle", "input", and then the name of the function applied
    fn_args,        \* the arguments of the call
    fn_result       \* what the call returned

geoVars == << geo_pc, geo_ray, geo_a, geo_b, geo_op, geo_range, geo_roots,
              geo_breaks, geo_hit >>
canvasVars == << cv_state, cv_width, cv_height, image_data, depth_buffer, cv_ops,
                 cv_last >>
renderVars == << rm_pc, rm_threads, rm_i, rm_j, rm_workers, rm_writers >>
traceVars == << tr_scene, tr_n, tr_stack, tr_call, tr_ret, tr_invocations, tr_last,
               tr_refraction >>
fnVars == << fn_pc, fn_args, fn_result >>
vars == << geoVars, canvasVars, renderVars, traceVars, fnVars >>

\* The parts of the state a specification does not use.
GeoIdle ==
    /\ geo_pc = "idle"
    /\ geo_ray = << >>
    /\ geo_a = << >>
    /\ geo_b = << >>
    /\ geo_op = "UNION"
    /\ geo_range = << >>
    /\ geo_roots = None
    /\ geo_breaks = << >>
    /\ geo_hit = None

CanvasIdle ==
    /\ cv_state = "none"
    /\ cv_width = 0
    /\ cv_height = 0
    /\ image_data = << >>
    /\ depth_buffer = << >>
    /\ cv_ops = 0
    /\ cv_last = [op |-> "none"]

RenderIdle ==
    /\ rm_pc = "idle"
    /\ rm_threads = 0
    /\ rm_i = 0
    /\ rm_j = 0
    /\ rm_workers = << >>
    /\ rm_writers = << >>

TraceIdle ==
    /\ tr_scene = << >>
    /\ tr_n = 0
    /\ tr_stack = << >>
    /\ tr_call = None
    /\ tr_ret = None
    /\ tr_invocations = 0
    /\ tr_last = [op |-> "none"]
    /\ tr_refraction = None

FnIdle ==
    /\ fn_pc = "idle"
    /\ fn_args = << >>
    /\ fn_result = << >>

(***************************************************************************)
(* The sphere primitive and the sphere object, applied to grid inputs.     *)
(***************************************************************************)
Coord == (0 - MaxCoord)..MaxCoord
Origins == { Pt(0, 0, 0), Pt(1, 0, -1), Pt(0, -1, -2) }
Directions == { Vec(x, y, z) : x \in Coord, y \in Coord, z \in Coord } \ { Vec(0, 0, 0) }
Centers == { Pt(x, 0, z) : x \in Coord, z \in Coord }
Radii == { Int2R(r) : r \in 1..MaxRadius }
\* Material { color, specular, reflective, transparency } of the objects hit-tested.
ObjectMaterial == [color |-> 1, specular |-> -1, reflective |-> 0, transparency |-> None]
UnitSphere == [center |-> Pt(0, 0, 0), radius |-> One]

ExactRoots(sphere, ray) ==
    LET disc == Discriminant(sphere, ray)
    IN  RLt(disc, Zero) \/ IsRSquare(disc)

InitSphere ==
    /\ geo_pc = "input"
    /\ geo_ray \in [origin : Origins, direction : Directions]
    /\ geo_a \in [center : Centers, radius : Radii]
    /\ ExactRoots(geo_a, geo_ray)
    /\ geo_b = UnitSphere
    /\ geo_op = "UNION"
    /\ geo_range \in Ranges
    /\ geo_roots = None
    /\ geo_breaks = << >>
    /\ geo_hit = None
    /\ CanvasIdle
    /\ RenderIdle
    /\ TraceIdle
    /\ FnIdle

ComputeRayIntersection ==
    /\ geo_pc = "input"
    /\ geo_pc' = "compute_ray_intersection"
    /\ geo_roots' = compute_ray_intersection(geo_a, geo_ray)
    /\ UNCHANGED << geo_ray, geo_a, geo_b, geo_op, geo_range, geo_breaks, geo_hit >>
    /\ UNCHANGED << canvasVars, renderVars, traceVars, fnVars >>

SphereHitTest ==
    /\ geo_pc = "input"
    /\ geo_pc' = "SphereObject::hit_test"
    /\ geo_hit' = SphereObject_hit_test([sphere |-> geo_a, material |-> ObjectMaterial],
                                        geo_ray, geo_range)
    /\ UNCHANGED << geo_ray, geo_a, geo_b, geo_op, geo_range, geo_roots, geo_breaks >>
    /\ UNCHANGED << canvasVars, renderVars, traceVars, fnVars >>

NextSphere == ComputeRayIntersection \/ SphereHitTest

SpecSphere == InitSphere /\ [][NextSphere]_vars

(***************************************************************************)
(* The boolean object, applied to grid inputs: sphere_a at the origin,     *)
(* sphere_b and the ray in the plane y = 0, sphere_b near enough to        *)
(* overlap sphere_a and far enough along z to be disjoint from it.         *)
(***************************************************************************)
CsgOrigins == { Pt(0, 0, 0), Pt(0, 0, -3), Pt(1, 0, -3) }
CsgDirections == { Vec(x, 0, z) : x \in Coord, z \in 0..MaxCoord } \ { Vec(0, 0, 0) }
CsgCenters == { Pt(x, 0, z) : x \in 0..MaxCoord, z \in (0 - MaxCoord - 2)..(MaxCoord + 2) }
CsgObject == [sphere_a |-> geo_a, operation |-> geo_op, sphere_b |-> geo_b,
              material |-> ObjectMaterial]

InitCsg ==
    /\ geo_pc = "input"
    /\ geo_ray \in [origin : CsgOrigins, direction : CsgDirections]
    /\ geo_a \in [center : { Pt(0, 0, 0) }, radius : Radii]
    /\ ExactRoots(geo_a, geo_ray)
    /\ geo_b \in [center : CsgCenters, radius : Radii]
    /\ ExactRoots(geo_b, geo_ray)
    /\ geo_op \in Operations
    /\ geo_range \in Ranges
    /\ geo_roots = None
    /\ geo_breaks = << >>
    /\ geo_hit = None
    /\ CanvasIdle
    /\ RenderIdle
    /\ TraceIdle
    /\ FnIdle

BooleanHitTest ==
    /\ geo_pc = "input"
    /\ geo_pc' = "BooleanOperationSpheresObject::hit_test"
    /\ geo_breaks' = BooleanOperation_break_points(CsgObject, geo_ray)
    /\ geo_hit' = BooleanOperation_hit_test(CsgObject, geo_ray, geo_range)
    /\ UNCHANGED << geo_ray, geo_a, geo_b, geo_op, geo_range, geo_roots >>
    /\ UNCHANGED << canvasVars, renderVars, traceVars, fnVars >>

NextCsg == BooleanHitTest

SpecCsg == InitCsg /\ [][NextCsg]_vars

\* The same hit test for rays that start inside the spheres, outside them and
\* on their surfaces, with sphere_b nested in sphere_a, reaching out of it or
\* apart from it; the rays cross sphere_b off its axis through sphere_a's centre.
NestedOrigins == { Pt(0, 0, 0), Pt(0, 0, -1), Pt(0, 0, -6) }
NestedDirections == { Vec(0, 0, 1), Vec(0, 0, -1), Vec(1, 0, 0) }
NestedOuter == { [center |-> Pt(0, 0, 0), radius |-> Int2R(r)] : r \in { 3, 5 } }
NestedInner ==
    { [center |-> Pt(3, 0, 0), radius |-> Int2R(5)],
      [center |-> Pt(0, 0, -1), radius |-> One],
      [center |-> Pt(0, 0, 0), radius |-> One],
      [center |-> Pt(0, 0, 4), radius |-> Int2R(5)],
      [center |-> Pt(0, 0, 8), radius |-> One] }

InitNested ==
    /\ geo_pc = "input"
    /\ geo_ray \in [origin : NestedOrigins, direction : NestedDirections]
    /\ geo_a \in NestedOuter
    /\ ExactRoots(geo_a, geo_ray)
    /\ geo_b \in NestedInner
    /\ ExactRoots(geo_b, geo_ray)
    /\ geo_op \in Operations
    /\ geo_range \in Ranges
    /\ geo_roots = None
    /\ geo_breaks = << >>
    /\ geo_hit = None
    /\ CanvasIdle
    /\ RenderIdle
    /\ TraceIdle
    /\ FnIdle

SpecNested == InitNested /\ [][NextCsg]_vars

(***************************************************************************)
(* The canvas: construction, set_pixel, and the fragments of the           *)
(* depth-buffered fill.  An assertion that fails aborts the program.       *)
(***************************************************************************)
Dims == 0..MaxDim
\* The centred coordinates of fragments: on the canvas and off it on every side.
FragmentCoords == -1..1
\* Inverse depths: behind the sentinel, the sentinel 0 itself, and in front of it.
InverseDepths == { Int2R(-1), Zero, One, Int2R(2) }

InitCanvas ==
    /\ GeoIdle
    /\ CanvasIdle
    /\ RenderIdle
    /\ TraceIdle
    /\ FnIdle

\* Canvas::new(width, height, background)
CanvasNew(width, height, background) ==
    /\ cv_state = "none"
    /\ cv_last' = [op |-> "new", width |-> width, height |-> height]
    /\ IF width > 0 /\ height > 0
       THEN /\ cv_state' = "live"
            /\ cv_width' = width
            /\ cv_height' = height
            /\ image_data' = NewBuffer(width * height, clamp(background))
            /\ depth_buffer' = NewBuffer(width * height, Zero)
            /\ UNCHANGED cv_ops
       ELSE /\ cv_state' = "aborted"
            /\ UNCHANGED << cv_width, cv_height, image_data, depth_buffer, cv_ops >>
    /\ UNCHANGED << geoVars, renderVars, traceVars, fnVars >>

\* Canvas::set_pixel(x, y, color)
SetPixel(x, y, color) ==
    /\ cv_state = "live"
    /\ cv_ops < MaxOps
    /\ cv_ops' = cv_ops + 1
    /\ cv_last' = [op |-> "set_pixel", x |-> x, y |-> y, color |-> color]
    /\ LET i == index(cv_width, cv_height, x, y)
       IN  IF IsSome(i)
           THEN /\ image_data' = [image_data EXCEPT ![Unwrap(i)] = clamp(color)]
                /\ UNCHANGED cv_state
           ELSE /\ cv_state' = "aborted"
                /\ UNCHANGED image_data
    /\ UNCHANGED << cv_width, cv_height, depth_buffer >>
    /\ UNCHANGED << geoVars, renderVars, traceVars, fnVars >>

\* One fragment of Canvas::draw_shaded_triangle's fill loop:
\*     if self.update_depth_buffer(x, y, iz) { self.put_pixel(x, y, color); }
\* The fragment (x, y, iz) is drawn freely: every fragment a triangle produces
\* is among these.
DrawFragment(x, y, iz, color) ==
    /\ cv_state = "live"
    /\ cv_ops < MaxOps
    /\ cv_ops' = cv_ops + 1
    /\ LET pos == CanvasPosition(cv_width, cv_height, x, y)
           i == IF IsSome(pos)
                THEN index(cv_width, cv_height, Unwrap(pos)[1], Unwrap(pos)[2])
                ELSE None
           updated == IsSome(i) /\ depth_test(depth_buffer[Unwrap(i)], iz)
       IN  /\ cv_last' = [op |-> "fragment", x |-> x, y |-> y, iz |-> iz, color |-> color,
                          updated |-> updated]
           /\ IF updated
              THEN /\ depth_buffer' = [depth_buffer EXCEPT ![Unwrap(i)] = iz]
                   /\ image_data' = [image_data EXCEPT ![Unwrap(i)] = clamp(color)]
              ELSE UNCHANGED << depth_buffer, image_data >>
    /\ UNCHANGED << cv_state, cv_width, cv_height >>
    /\ UNCHANGED << geoVars, renderVars, traceVars, fnVars >>

NextCanvas ==
    \/ \E width \in Dims, height \in Dims : CanvasNew(width, height, Background)
    \/ \E x \in Dims, y \in Dims, color \in Colors : SetPixel(x, y, color)
    \/ \E x \in FragmentCoords, y \in FragmentCoords, iz \in InverseDepths, color \in Colors :
          DrawFragment(x, y, iz, color)

SpecCanvas == InitCanvas /\ [][NextCanvas]_vars

(***************************************************************************)
(* Canvas::render_mth(scene, threads, depth, samples): the caller spawns   *)
(* one worker per i in 0..threads, each holding the same canvas, and then  *)
(* joins them in order.  A worker walks the columns x in 0..width, skips   *)
(* those with x % threads != i, and calls super_sampling(x, y) for each y  *)
(* of a column it keeps; super_sampling ends in set_pixel(x, y, colour).   *)
(* Workers run as soon as they are spawned, interleaved in any order.      *)
(***************************************************************************)
RenderWidths == 1..(MaxDim + 1)
RenderHeights == 1..MaxDim

\* The colour super_sampling computes for pixel (x, y): the mean of the traced
\* samples, a function of the scene and the pixel only (the scene is shared
\* read-only).  Here each pixel of the scene has a colour of its own.
super_sampling_color(x, y) == << Int2R(50 * x), Int2R(70 * y), Rat(255, 2) >>

\* Canvas::render from pixel (x, y) on: for x in 0..width { for y in 0..height
\* { self.super_sampling(x, y, ...) } }, on the pixel buffer image; None when
\* set_pixel's assertion fails.
RECURSIVE render_from(_, _, _, _, _)
render_from(image, width, height, x, y) ==
    IF x >= width THEN Some(image)
    ELSE IF y >= height THEN render_from(image, width, height, x + 1, 0)
    ELSE LET k == index(width, height, x, y)
         IN  IF IsNone(k) THEN None
             ELSE render_from([image EXCEPT ![Unwrap(k)] = clamp(super_sampling_color(x, y))],
                              width, height, x, y + 1)

render(image, width, height) == render_from(image, width, height, 0, 0)

\* A mutant: the workers are numbered from 1.
skips_column_from_one(x, threads, i) == x % threads # i + 1

\* A mutant: a worker also takes the columns of the workers before it.
skips_column_above(x, threads, i) == x % threads > i

\* if x % threads != i { continue; }
skips_column(x, threads, i) == x % threads # i

\* A mutant: the caller does not wait for the worker.
joinable_at_once(worker) == TRUE

\* t.join() returns once the worker's closure has ended.
joinable(worker) == worker.state = "done"

InitRender ==
    /\ GeoIdle
    /\ cv_state = "live"
    /\ cv_width \in RenderWidths
    /\ cv_height \in RenderHeights
    /\ image_data = NewBuffer(cv_width * cv_height, clamp(Background))
    /\ depth_buffer = NewBuffer(cv_width * cv_height, Zero)
    /\ cv_ops = 0
    /\ cv_last = [op |-> "new", width |-> cv_width, height |-> cv_height]
    /\ rm_pc = "spawn"
    /\ rm_threads \in 0..MaxThreads
    /\ rm_i = 0
    /\ rm_j = 0
    /\ rm_workers = [i \in 0..(rm_threads - 1) |-> [state |-> "unspawned", x |-> 0, y |-> 0]]
    /\ rm_writers = NewBuffer(cv_width * cv_height, << >>)
    /\ TraceIdle
    /\ FnIdle

\* v.push(thread::spawn(...)) for the next i, or the end of the spawn loop.
Spawn ==
    /\ rm_pc = "spawn"
    /\ IF rm_i < rm_threads
       THEN /\ rm_workers' = [rm_workers EXCEPT ![rm_i].state = "running"]
            /\ rm_i' = rm_i + 1
            /\ UNCHANGED rm_pc
       ELSE /\ rm_pc' = "join"
            /\ UNCHANGED << rm_workers, rm_i >>
    /\ UNCHANGED << rm_threads, rm_j, rm_writers, geoVars, canvasVars, traceVars, fnVars >>

\* Worker i at a column it does not own: continue.
WorkerSkip(i) ==
    /\ rm_workers[i].state = "running"
    /\ rm_workers[i].x < cv_width
    /\ skips_column(rm_workers[i].x, rm_threads, i)
    /\ rm_workers' = [rm_workers EXCEPT ![i].x = @ + 1]
    /\ UNCHANGED << rm_pc, rm_threads, rm_i, rm_j, rm_writers, geoVars, canvasVars, traceVars, fnVars >>

\* Worker i at a pixel of a column it owns: canvas.super_sampling(x, y, ...).
WorkerPixel(i) ==
    /\ cv_state = "live"
    /\ rm_workers[i].state = "running"
    /\ rm_workers[i].x < cv_width
    /\ ~skips_column(rm_workers[i].x, rm_threads, i)
    /\ LET x == rm_workers[i].x
           y == rm_workers[i].y
           k == index(cv_width, cv_height, x, y)
       IN  /\ IF IsSome(k)
              THEN /\ image_data' = [image_data EXCEPT
                                        ![Unwrap(k)] = clamp(super_sampling_color(x, y))]
                   /\ rm_writers' = [rm_writers EXCEPT ![Unwrap(k)] = Append(@, i)]
                   /\ UNCHANGED cv_state
              ELSE /\ cv_state' = "aborted"
                   /\ UNCHANGED << image_data, rm_writers >>
           /\ rm_workers' = [rm_workers EXCEPT
                                ![i].x = IF y + 1 < cv_height THEN x ELSE x + 1,
                                ![i].y = IF y + 1 < cv_height THEN y + 1 ELSE 0]
    /\ UNCHANGED << rm_pc, rm_threads, rm_i, rm_j, geoVars, traceVars, fnVars >>
    /\ UNCHANGED << cv_width, cv_height, depth_buffer, cv_ops, cv_last >>

\* Worker i past the last column: its closure ends.
WorkerExit(i) ==
    /\ rm_workers[i].state = "running"
    /\ rm_workers[i].x >= cv_width
    /\ rm_workers' = [rm_workers EXCEPT ![i].state = "done"]
    /\ UNCHANGED << rm_pc, rm_threads, rm_i, rm_j, rm_writers, geoVars, canvasVars, traceVars, fnVars >>

\* for t in v { t.join().unwrap(); }: the next handle, or the return.
Join ==
    /\ rm_pc = "join"
    /\ IF rm_j < rm_threads
       THEN /\ joinable(rm_workers[rm_j])
            /\ rm_j' = rm_j + 1
            /\ UNCHANGED rm_pc
       ELSE /\ rm_pc' = "returned"
            /\ UNCHANGED rm_j
    /\ UNCHANGED << rm_threads, rm_i, rm_workers, rm_writers, geoVars, canvasVars, traceVars, fnVars >>

NextRender ==
    \/ Spawn
    \/ Join
    \/ \E i \in DOMAIN rm_workers : WorkerSkip(i)
    \/ \E i \in DOMAIN rm_workers : WorkerPixel(i)
    \/ \E i \in DOMAIN rm_workers : WorkerExit(i)

SpecRender == InitRender /\ [][NextRender]_vars

(***************************************************************************)
(* Scene::hit_test, Scene::container_hit_test and Scene::trace_ray.        *)
(* The scene's objects and lights are trait objects: what an object's      *)
(* hit_test and a light's intensity_from return for a given ray is drawn   *)
(* per invocation.  A hit carries t, the object's material and             *)
(* normal_dot_in, the dot product of its normal with the normalised ray    *)
(* direction, which is all that trace_ray reads of the hit's geometry to   *)
(* decide on its recursive calls.  The recursion is a stack of suspended   *)
(* invocations; one step runs an invocation from its entry, or from the    *)
(* return of its recursive call, up to its next call or its return; a      *)
(* suspended invocation keeps the locals it still reads.                   *)
(***************************************************************************)
\* depth: u32.  0 - 1 wraps to u32::MAX in a release build (and panics in a
\* debug build); the largest integer of the model checker stands for u32::MAX.
WrappedDepth == 2147483647
\* AIR_REFRACTION_INDEX = 1.0
AIR_REFRACTION_INDEX == One

\* Color + Color and Color * f64.
ColorAdd(a, b) == [i \in 1..3 |-> RAdd(a[i], b[i])]
ColorMul(color, rhs) == [i \in 1..3 |-> RMul(color[i], rhs)]

MirrorGlass ==
    [color |-> Red, specular |-> 10, reflective |-> One,
     transparency |-> Some(Int2R(2))]
Matte ==
    [color |-> Vivid, specular |-> -1, reflective |-> Zero, transparency |-> None]
Mirror ==
    [color |-> Vivid, specular |-> 10, reflective |-> Rat(1, 2), transparency |-> None]
Glass ==
    [color |-> Red, specular |-> -1, reflective |-> Rat(-1, 2),
     transparency |-> Some(Rat(3, 2))]
SceneMaterials == << MirrorGlass, Matte, Mirror, Glass >>

\* The scenes of up to n objects: runs of objects with these materials.
ScenesUpTo(n) ==
    { SubSeq(SceneMaterials, w[1], w[1] + w[2] - 1) :
        w \in { v \in (1..Len(SceneMaterials)) \X (0..n) :
                   v[1] + v[2] - 1 <= Len(SceneMaterials) } }

\* The intensities the scene's lights report at a point: none when the scene
\* has no light, or those of two lights that both reach the point.
LightResults == { << >>, << Rat(1, 4), Rat(1, 4) >> }
HitTimes == { One, Int2R(2) }
\* A ray grazing a surface from outside, and a ray leaving through it head-on.
Cosines == { Zero, One }

\* What the scene's objects can report for one ray: per object, no hit or a hit
\* with a t inside the interval.
ObjectResults(scene, t_range) ==
    [1..Len(scene) ->
        { None } \cup
        { Some([t |-> t, object |-> 0, normal_dot_in |-> c]) :
            t \in { u \in HitTimes : Contains(t_range, u) }, c \in Cosines }]

\* The hit of object k, carrying the object's material.
ObjectHit(scene, results, k) ==
    IF IsNone(results[k]) THEN None
    ELSE Some([t |-> Unwrap(results[k]).t, object |-> k, material |-> scene[k],
               normal_dot_in |-> Unwrap(results[k]).normal_dot_in])

\* The t of each object's hit, if it has one.
HitTimesOf(results) ==
    [k \in DOMAIN results |->
        IF IsNone(results[k]) THEN None ELSE Some(Unwrap(results[k]).t)]

\* self.lights.iter().map(...).sum()
RECURSIVE compute_lighting(_)
compute_lighting(intensities) ==
    IF intensities = << >> THEN Zero
    ELSE RAdd(compute_lighting(SubSeq(intensities, 1, Len(intensities) - 1)),
              intensities[Len(intensities)])

\* A mutant: the scan keeps the farther hit.
farther(r, result) == RGt(r.t, result.t)

\* r.t < result.unwrap().t
closer(r, result) == RLt(r.t, result.t)

\* The loop of Scene::hit_test from object i on, with result so far.
RECURSIVE hit_test_from(_, _, _, _)
hit_test_from(scene, results, i, result) ==
    IF i > Len(scene) THEN result
    ELSE LET r == ObjectHit(scene, results, i)
         IN  hit_test_from(scene, results, i + 1,
                 IF IsNone(r) THEN result
                 ELSE IF IsNone(result) THEN r
                 ELSE IF closer(Unwrap(r), Unwrap(result)) THEN r
                 ELSE result)

Scene_hit_test(scene, results) == hit_test_from(scene, results, 1, None)

\* The loop of Scene::container_hit_test: hits whose normal does not point along
\* the ray are passed over.
RECURSIVE container_hit_test_from(_, _, _, _)
container_hit_test_from(scene, results, i, result) ==
    IF i > Len(scene) THEN result
    ELSE LET r == ObjectHit(scene, results, i)
         IN  container_hit_test_from(scene, results, i + 1,
                 IF IsNone(r) THEN result
                 ELSE IF RLe(Unwrap(r).normal_dot_in, Zero) THEN result
                 ELSE IF IsNone(result) THEN r
                 ELSE IF RLt(Unwrap(r).t, Unwrap(result).t) THEN r
                 ELSE result)

Scene_container_hit_test(scene, results) ==
    container_hit_test_from(scene, results, 1, None)

\* A mutant: the reflected ray is traced whatever the depth.
reflects_at_any_depth(depth, material) == ~RLe(material.reflective, Zero)

\* The negation of: depth == 0 || hit.material.reflective <= 0.
reflects(depth, material) == ~(depth = 0 \/ RLe(material.reflective, Zero))

\* The negation of: depth == 0 || hit.material.transparency.is_none()
refracts(depth, material) == ~(depth = 0 \/ IsNone(material.transparency))

\* A mutant: the recursive call passes its own depth on.
next_depth_same(depth) == depth

\* depth - 1, in u32.
next_depth(depth) == IF depth > 0 THEN depth - 1 ELSE WrappedDepth

\* The refraction branch up to its test of d: new_refraction_index, d and the
\* blending weight p, for the container hit found along the ray.
Refraction(refraction_index, hit, container_hit) ==
    LET going_outside_object == RGt(hit.normal_dot_in, Zero)
        new_refraction_index ==
            IF going_outside_object
            THEN IF IsSome(container_hit) /\ IsSome(Unwrap(container_hit).material.transparency)
                 THEN Unwrap(Unwrap(container_hit).material.transparency)
                 ELSE AIR_REFRACTION_INDEX
            ELSE Unwrap(hit.material.transparency)
        cos == IF going_outside_object THEN RNeg(hit.normal_dot_in) ELSE hit.normal_dot_in
        k == RDiv(refraction_index, new_refraction_index)
        d == RSub(One, RMul(RMul(k, k), RSub(One, RMul(cos, cos))))
    IN  [new_refraction_index |-> new_refraction_index, d |-> d,
         p |-> RSqrt(IF RLt(cos, Zero) THEN RNeg(cos) ELSE cos)]

EpsToInfinity == [start |-> EPS, end |-> PosInf]

\* A mutant: the refracted ray is traced whatever d is.
total_internal_reflection_never(d) == FALSE

\* d < 0.
total_internal_reflection(d) == RLt(d, Zero)

\* The invocation returns color to its caller.
Return(stack, color) ==
    /\ tr_stack' = stack
    /\ tr_call' = None
    /\ tr_ret' = Some(color)

\* The invocation suspends in frame and calls trace_ray(depth, refraction_index).
Recurse(stack, frame, depth, refraction_index) ==
    /\ tr_stack' = Append(stack, frame)
    /\ tr_call' = Some([depth |-> depth, refraction_index |-> refraction_index,
                        t_range |-> EpsToInfinity])
    /\ tr_ret' = None

\* trace_ray from the point where opaque_color is known: return it, or trace the
\* refracted ray.
AfterOpaque(stack, depth, refraction_index, hit, opaque_color) ==
    IF ~refracts(depth, hit.material)
    THEN /\ tr_refraction' = None
         /\ Return(stack, opaque_color)
    ELSE \E container \in ObjectResults(tr_scene, EpsToInfinity) :
            \E r \in { Refraction(refraction_index, hit,
                                  Scene_container_hit_test(tr_scene, container)) } :
              /\ tr_refraction' = Some([depth |-> depth,
                                        transparency |-> hit.material.transparency,
                                        d |-> r.d, opaque_color |-> opaque_color,
                                        callers |-> Len(stack)])
              /\ IF total_internal_reflection(r.d)
                 THEN Return(stack, opaque_color)
                 ELSE Recurse(stack,
                              [phase |-> "refraction", depth |-> depth,
                               color |-> opaque_color, p |-> r.p],
                              next_depth(depth), r.new_refraction_index)

\* More invocations than any call tree of depth MaxDepth has.
InvocationCap == 2 ^ (MaxDepth + 2)

\* A top-level call trace_ray(ray, AIR_REFRACTION_INDEX, 1.0..=INFINITY, depth),
\* as super_sampling makes it.
TopLevelCall(scenes, depths) ==
    /\ GeoIdle
    /\ CanvasIdle
    /\ RenderIdle
    /\ FnIdle
    /\ tr_scene \in scenes
    /\ tr_n \in depths
    /\ tr_stack = << >>
    /\ tr_call = Some([depth |-> tr_n, refraction_index |-> AIR_REFRACTION_INDEX,
                       t_range |-> [start |-> One, end |-> PosInf]])
    /\ tr_ret = None
    /\ tr_invocations = 0
    /\ tr_last = [op |-> "none"]
    /\ tr_refraction = None

\* The recursion: every depth up to MaxDepth, over an empty scene or one object
\* of any of the materials.
InitTrace == TopLevelCall(ScenesUpTo(1), 0..MaxDepth)

\* The scan: scenes of up to MaxObjects objects, traced without recursion and
\* with one level of it.
ScanDepths == { 0, 1 }
InitScan == TopLevelCall(ScenesUpTo(MaxObjects), ScanDepths)

\* An invocation of trace_ray runs from its entry to its first recursive call or
\* to its return.
Enter ==
    /\ IsSome(tr_call)
    /\ tr_invocations < InvocationCap
    /\ tr_invocations' = tr_invocations + 1
    /\ LET call == Unwrap(tr_call)
       IN  \E results \in ObjectResults(tr_scene, call.t_range), lights \in LightResults :
              LET result == Scene_hit_test(tr_scene, results)
                  lighting == compute_lighting(lights)
              IN  /\ tr_last' = [op |-> "enter", depth |-> call.depth,
                                 times |-> HitTimesOf(results),
                                 result |-> result, lighting |-> lighting]
                  /\ IF IsNone(result)
                     THEN /\ tr_refraction' = None
                          /\ Return(tr_stack, Background)
                     ELSE LET hit == Unwrap(result)
                              local_color == ColorMul(hit.material.color, lighting)
                          IN  IF reflects(call.depth, hit.material)
                              THEN /\ tr_refraction' = None
                                   /\ Recurse(tr_stack,
                                           [phase |-> "reflection", depth |-> call.depth,
                                            refraction_index |-> call.refraction_index,
                                            hit |-> [material |-> hit.material,
                                                     normal_dot_in |-> hit.normal_dot_in],
                                            color |-> local_color],
                                           next_depth(call.depth), One)
                              ELSE AfterOpaque(tr_stack, call.depth, call.refraction_index,
                                               hit, local_color)
    /\ UNCHANGED << tr_scene, tr_n, geoVars, canvasVars, renderVars, fnVars >>

\* A recursive call has returned: the suspended invocation goes on, to its
\* second recursive call or to its return.
Resume ==
    /\ IsSome(tr_ret)
    /\ tr_stack # << >>
    /\ LET frame == tr_stack[Len(tr_stack)]
           stack == SubSeq(tr_stack, 1, Len(tr_stack) - 1)
           returned == Unwrap(tr_ret)
       IN  IF frame.phase = "reflection"
           THEN LET reflective == frame.hit.material.reflective
                IN  \E opaque_color \in
                        { ColorAdd(ColorMul(frame.color, RSub(One, reflective)),
                                   ColorMul(returned, reflective)) } :
                       AfterOpaque(stack, frame.depth, frame.refraction_index,
                                   frame.hit, opaque_color)
           ELSE /\ tr_refraction' = None
                /\ Return(stack, ColorAdd(ColorMul(frame.color, RSub(One, frame.p)),
                                          ColorMul(returned, frame.p)))
    /\ tr_last' = [op |-> "resume"]
    /\ UNCHANGED << tr_scene, tr_n, tr_invocations, geoVars, canvasVars, renderVars, fnVars >>

NextTrace ==
    \/ Enter
    \/ Resume

SpecTrace == InitTrace /\ [][NextTrace]_vars

\* The top-level call has returned.
TraceReturned == tr_stack = << >> /\ IsSome(tr_ret)

\* The thread running the call is not suspended for ever: an invocation that
\* can run, or can go on after its callee's return, does.
SpecTraceFair == SpecTrace /\ WF_vars(Enter) /\ WF_vars(Resume)

SpecScan == InitScan /\ [][NextTrace]_vars

\* The refraction: an object of glass alone, and one lying inside an object of
\* a denser material, traced with two levels of recursion.
RefractionScenes == { << Glass >>, << MirrorGlass, Glass >> }
RefractionDepths == { 2 }
InitRefraction == TopLevelCall(RefractionScenes, RefractionDepths)

SpecRefraction == InitRefraction /\ [][NextTrace]_vars

(***************************************************************************)
(* solve_equations, Triangle and PolyhedronObject::hit_test.  Rows and     *)
(* columns are numbered from 1 here, from 0 in the program.                *)
(***************************************************************************)
HCross(u, v) ==
    << RSub(RMul(u[2], v[3]), RMul(u[3], v[2])),
       RSub(RMul(u[3], v[1]), RMul(u[1], v[3])),
       RSub(RMul(u[1], v[2]), RMul(u[2], v[1])),
       Zero >>

\* The pivot search of step i: when the diagonal entry is zero, the row below
\* is swapped in if its entry in column i is not zero; the loop over the rows
\* below ends after its first iteration.
PivotRow(sys, i) ==
    IF sys.coefficients[i][i] = Zero /\ i + 1 <= 3 /\ sys.coefficients[i + 1][i] # Zero
    THEN [coefficients |-> [sys.coefficients EXCEPT ![i] = sys.coefficients[i + 1],
                                                   ![i + 1] = sys.coefficients[i]],
          rhs |-> [sys.rhs EXCEPT ![i] = sys.rhs[i + 1], ![i + 1] = sys.rhs[i]]]
    ELSE sys

\* Row i is divided by its pivot, from column i on, and then subtracted from
\* every other row, from column i on.
EliminateColumn(sys, i) ==
    LET c == sys.coefficients[i][i]
        row == [k \in 1..3 |-> IF k >= i THEN RDiv(sys.coefficients[i][k], c)
                               ELSE sys.coefficients[i][k]]
        r == RDiv(sys.rhs[i], c)
    IN  [coefficients |->
            [j \in 1..3 |->
                IF j = i THEN row
                ELSE [k \in 1..3 |->
                        IF k >= i
                        THEN RSub(sys.coefficients[j][k],
                                  RMul(sys.coefficients[j][i], row[k]))
                        ELSE sys.coefficients[j][k]]],
         rhs |-> [j \in 1..3 |->
                    IF j = i THEN r
                    ELSE RSub(sys.rhs[j], RMul(sys.coefficients[j][i], r))]]

\* The loop of solve_equations from step i on, and its final test of the diagonal.
RECURSIVE solve_equations_from(_, _)
solve_equations_from(sys, i) ==
    IF i > 3
    THEN IF \E k \in 1..3 : sys.coefficients[k][k] # One THEN None ELSE Some(sys.rhs)
    ELSE LET pivoted == PivotRow(sys, i)
         IN  IF pivoted.coefficients[i][i] = Zero THEN None
             ELSE solve_equations_from(EliminateColumn(pivoted, i), i + 1)

solve_equations(coefficients, rhs) ==
    solve_equations_from([coefficients |-> coefficients, rhs |-> rhs], 1)

\* Triangle::new
Triangle_new(a, b, c) ==
    LET cross == HCross(HSub(b, a), HSub(c, a))
    IN  [a |-> a, b |-> b, c |-> c, normal |-> HDiv(cross, HLength(cross))]

\* The weights are accepted: the negation of r < 0 || s < 0 || r + s > 1.
accepts_weights(r, s) == ~(RLt(r, Zero) \/ RLt(s, Zero) \/ RGt(RAdd(r, s), One))

\* Triangle::compute_ray_intersection
Triangle_compute_ray_intersection(triangle, ray) ==
    LET ab == HSub(triangle.b, triangle.a)
        ac == HSub(triangle.c, triangle.a)
        ao == HSub(ray.origin, triangle.a)
        solution == solve_equations(
            << << ab[1], ac[1], RNeg(ray.direction[1]) >>,
               << ab[2], ac[2], RNeg(ray.direction[2]) >>,
               << ab[3], ac[3], RNeg(ray.direction[3]) >> >>,
            << ao[1], ao[2], ao[3] >>)
    IN  IF IsNone(solution) THEN None
        ELSE IF accepts_weights(Unwrap(solution)[1], Unwrap(solution)[2])
             THEN Some(Unwrap(solution)[3])
             ELSE None

\* What each triangle of the mesh reports for the ray, in mesh order.
TriangleIntersections(triangles, ray) ==
    [k \in DOMAIN triangles |-> Triangle_compute_ray_intersection(triangles[k], ray)]

\* flat_map(...).collect(): the (t, normal) pairs of the triangles that are hit.
RECURSIVE CollectHits(_, _, _)
CollectHits(triangles, ray, k) ==
    IF k > Len(triangles) THEN << >>
    ELSE LET t == Triangle_compute_ray_intersection(triangles[k], ray)
         IN  (IF IsNone(t) THEN << >>
              ELSE << [t |-> Unwrap(t), normal |-> triangles[k].normal] >>)
             \o CollectHits(triangles, ray, k + 1)

\* hit goes into a sorted list after every entry that is not greater.
RECURSIVE InsertHit(_, _)
InsertHit(sorted, hit) ==
    IF sorted = << >> THEN << hit >>
    ELSE IF RLt(hit.t, Head(sorted).t) THEN << hit >> \o sorted
    ELSE << Head(sorted) >> \o InsertHit(Tail(sorted), hit)

\* A mutant: the hits are left in mesh order.
sort_hits_not(hits) == hits

\* hits.sort_by(|a, b| a.0.partial_cmp(&b.0).unwrap()): a stable sort by t.
RECURSIVE sort_hits(_)
sort_hits(hits) ==
    IF hits = << >> THEN << >>
    ELSE InsertHit(sort_hits(SubSeq(hits, 1, Len(hits) - 1)), hits[Len(hits)])

\* The loop over the sorted hits: the first one inside t_range is returned.
RECURSIVE FirstHitInside(_, _, _, _)
FirstHitInside(object, ray, t_range, hits) ==
    IF hits = << >> THEN None
    ELSE IF Contains(t_range, Head(hits).t)
         THEN Some([t |-> Head(hits).t,
                    point |-> HAdd(ray.origin, HMul(ray.direction, Head(hits).t)),
                    normal |-> Head(hits).normal,
                    material |-> object.material])
         ELSE FirstHitInside(object, ray, t_range, Tail(hits))

PolyhedronObject_hit_test(object, ray, t_range) ==
    FirstHitInside(object, ray, t_range, sort_hits(CollectHits(object.triangles, ray, 1)))

(***************************************************************************)
(* PolyhedronObject::hit_test applied to one mesh, ray and interval.  The  *)
(* triangles: a square in the plane z = 2 cut along its diagonal into two  *)
(* triangles that share that edge, a triangle behind it (z = 4) and one    *)
(* standing upright in the plane x = 1.                                    *)
(***************************************************************************)
SquareLow == Triangle_new(Pt(-2, -2, 2), Pt(2, -2, 2), Pt(2, 2, 2))
SquareHigh == Triangle_new(Pt(-2, -2, 2), Pt(2, 2, 2), Pt(-2, 2, 2))
Behind == Triangle_new(Pt(-2, -2, 4), Pt(2, -2, 4), Pt(0, 2, 4))
Upright == Triangle_new(Pt(1, -1, 1), Pt(1, -1, 3), Pt(1, 1, 1))
TrianglePool == { SquareLow, SquareHigh, Behind, Upright }

\* The meshes: lists of up to MaxTriangles different triangles, in every order.
Meshes ==
    { m \in UNION { [1..n -> TrianglePool] : n \in 0..MaxTriangles } :
        \A i, j \in DOMAIN m : i # j => m[i] # m[j] }

MeshOrigins == { Pt(0, 0, 0), Pt(0, 0, 3) }
MeshDirections == { Vec(x, y, z) : x \in Coord, y \in Coord, z \in 1..(MaxCoord + 1) }

InitMesh ==
    /\ GeoIdle
    /\ CanvasIdle
    /\ RenderIdle
    /\ TraceIdle
    /\ fn_pc = "input"
    /\ fn_args \in [object : [triangles : Meshes, material : { ObjectMaterial }],
                    ray : [origin : MeshOrigins, direction : MeshDirections],
                    t_range : Ranges]
    /\ fn_result = << >>

PolyhedronHitTest ==
    /\ fn_pc = "input"
    /\ "object" \in DOMAIN fn_args
    /\ fn_pc' = "PolyhedronObject::hit_test"
    /\ fn_result' = [intersections |->
                        TriangleIntersections(fn_args.object.triangles, fn_args.ray),
                     hit |-> PolyhedronObject_hit_test(fn_args.object, fn_args.ray,
                                                       fn_args.t_range)]
    /\ UNCHANGED << fn_args, geoVars, canvasVars, renderVars, traceVars >>

NextMesh == PolyhedronHitTest

SpecMesh == InitMesh /\ [][NextMesh]_vars

\* solve_equations on its own: systems with coefficients 0 and 1, among them
\* every permutation of the rows of the identity, and two right-hand sides.
SolveEntries == { Zero, One }
SolveRows == [1..3 -> SolveEntries]
SolveSides == { << One, Int2R(2), Int2R(3) >>, << Zero, One, Zero >> }

InitSolve ==
    /\ GeoIdle
    /\ CanvasIdle
    /\ RenderIdle
    /\ TraceIdle
    /\ fn_pc = "input"
    /\ fn_args \in [coefficients : [1..3 -> SolveRows], rhs : SolveSides]
    /\ fn_result = << >>

SolveEquations ==
    /\ fn_pc = "input"
    /\ "coefficients" \in DOMAIN fn_args
    /\ fn_pc' = "solve_equations"
    /\ fn_result' = [solution |-> solve_equations(fn_args.coefficients, fn_args.rhs)]
    /\ UNCHANGED << fn_args, geoVars, canvasVars, renderVars, traceVars >>

NextSolve == SolveEquations

SpecSolve == InitSolve /\ [][NextSolve]_vars

(***************************************************************************)
(* The lights: LightObject::intensity_from of AmbientLight, PointLight and *)
(* DirectionalLight, with a scene of spheres to cast the shadows.          *)
(***************************************************************************)
\* f64::max: the other operand when one is NaN.
F64Max(x, y) == IF IsNaN(x) THEN y ELSE IF IsNaN(y) THEN x ELSE IF RLt(x, y) THEN y ELSE x

RECURSIVE powi(_, _)
powi(x, n) == IF n = 0 THEN One ELSE RMul(x, powi(x, n - 1))

HCos(u, v) == RDiv(HDot(u, v), RMul(HLength(u), HLength(v)))
HReflect(u, v) == HSub(HMul(HMul(u, HDot(u, v)), Int2R(2)), v)

compute_light_factor(normal, light, view, specular) ==
    RAdd(F64Max(HCos(normal, light), Zero),
         IF specular >= 0
         THEN powi(F64Max(HCos(HReflect(normal, light), view), Zero), specular)
         ELSE Zero)

\* Scene::hit_test over objects that are spheres: each object's own hit test
\* first, then the scan for the nearest.
SceneOfSpheres_hit_test(objects, ray, t_range) ==
    Scene_hit_test(
        [k \in DOMAIN objects |-> objects[k].material],
        [k \in DOMAIN objects |->
            LET r == SphereObject_hit_test(objects[k], ray, t_range)
            IN  IF IsNone(r) THEN None
                ELSE Some([t |-> Unwrap(r).t, object |-> 0,
                           normal_dot_in |-> HDot(Unwrap(r).normal, ray.direction)])])

\* A mutant: the shadow ray of a point light is followed beyond the light.
EpsToOne_unbounded == [start |-> EPS, end |-> PosInf]

\* EPS..=1.0
EpsToOne == [start |-> EPS, end |-> One]

AmbientLight_intensity_from(self, objects, point, normal, view, specular) ==
    self.intensity

PointLight_intensity_from(self, objects, point, normal, view, specular) ==
    LET light == HSub(self.position, point)
    IN  IF IsSome(SceneOfSpheres_hit_test(objects,
                      [origin |-> point, direction |-> light], EpsToOne))
        THEN Zero
        ELSE RMul(self.intensity, compute_light_factor(normal, light, view, specular))

DirectionalLight_intensity_from(self, objects, point, normal, view, specular) ==
    IF IsSome(SceneOfSpheres_hit_test(objects,
                  [origin |-> point, direction |-> self.direction], EpsToInfinity))
    THEN Zero
    ELSE RMul(self.intensity, compute_light_factor(normal, self.direction, view, specular))

\* The dispatch of the trait object.
intensity_from(self, objects, point, normal, view, specular) ==
    IF self.kind = "AmbientLight"
    THEN AmbientLight_intensity_from(self, objects, point, normal, view, specular)
    ELSE IF self.kind = "PointLight"
    THEN PointLight_intensity_from(self, objects, point, normal, view, specular)
    ELSE DirectionalLight_intensity_from(self, objects, point, normal, view, specular)

\* Where the lights are and where they shine from: on the x and z axes near the
\* shaded point, and one far away, for which the occluders lie at t of the
\* order of EPS.
LightVectors ==
    { << x, 0, 0 >> : x \in Coord \ { 0 } }
        \cup { << 0, 0, z >> : z \in Coord \ { 0 } }
        \cup { << 0, 0, 1000 >> }
LightIntensity == Rat(1, 2)
Lights ==
    { [kind |-> "AmbientLight", intensity |-> LightIntensity] }
    \cup { [kind |-> "PointLight", intensity |-> LightIntensity,
            position |-> Pt(v[1], v[2], v[3])] : v \in LightVectors }
    \cup { [kind |-> "DirectionalLight", intensity |-> LightIntensity,
            direction |-> Vec(v[1], v[2], v[3])] : v \in LightVectors }

\* The occluders: unit spheres on the z axis, before and beyond the nearest
\* light, one off the z axis and one around the shaded point itself.
Occluders ==
    { [sphere |-> [center |-> c, radius |-> One], material |-> ObjectMaterial] :
        c \in { Pt(0, 0, 2), Pt(0, 0, 3), Pt(3, 0, 0), Pt(0, 0, 0) } }
OccluderScenes == UNION { [1..n -> Occluders] : n \in 0..MaxObjects }

ShadedPoint == Pt(0, 0, 0)
SurfaceNormals == { Vec(0, 0, 1), Vec(0, 0, -1) }
Speculars == { -1, 2 }

InitLight ==
    /\ GeoIdle
    /\ CanvasIdle
    /\ RenderIdle
    /\ TraceIdle
    /\ fn_pc = "input"
    /\ fn_args \in [light : Lights, objects : OccluderScenes, point : { ShadedPoint },
                    normal : SurfaceNormals, view : { Vec(0, 0, 1) },
                    specular : Speculars]
    /\ fn_result = << >>

IntensityFrom ==
    /\ fn_pc = "input"
    /\ "light" \in DOMAIN fn_args
    /\ fn_pc' = "LightObject::intensity_from"
    /\ fn_result' = [intensity |->
                        intensity_from(fn_args.light, fn_args.objects, fn_args.point,
                                       fn_args.normal, fn_args.view, fn_args.specular)]
    /\ UNCHANGED << fn_args, geoVars, canvasVars, renderVars, traceVars >>

NextLight == IntensityFrom

SpecLight == InitLight /\ [][NextLight]_vars

(***************************************************************************)
(* interpolate.                                                            *)
(***************************************************************************)
\* A mutant: the slope is computed even when i0 = i1.
interpolate_unguarded(i0, d0, i1, d1) ==
    LET a == RDiv(RSub(d1, d0), Int2R(i1 - i0))
    IN  [k \in 1..(i1 - i0 + 1) |-> RAdd(RMul(Int2R(k - 1), a), d0)]

\* The k-th element is the value at index i = i0 + k - 1; the range i0..=i1 is
\* empty when i0 > i1.
interpolate(i0, d0, i1, d1) ==
    IF i0 = i1 THEN << d0 >>
    ELSE LET a == RDiv(RSub(d1, d0), Int2R(i1 - i0))
         IN  [k \in 1..(i1 - i0 + 1) |-> RAdd(RMul(Int2R(k - 1), a), d0)]

SampleIndices == (0 - MaxDim)..MaxDim
SampleValues == { Int2R(x) : x \in (0 - MaxDim)..MaxDim } \cup { Rat(1, 2), Rat(-7, 3) }

InitInterpolate ==
    /\ GeoIdle
    /\ CanvasIdle
    /\ RenderIdle
    /\ TraceIdle
    /\ fn_pc = "input"
    /\ fn_args \in [i0 : SampleIndices, d0 : SampleValues,
                    i1 : SampleIndices, d1 : SampleValues]
    /\ fn_result = << >>

Interpolate ==
    /\ fn_pc = "input"
    /\ "i0" \in DOMAIN fn_args
    /\ fn_pc' = "interpolate"
    /\ fn_result' = interpolate(fn_args.i0, fn_args.d0, fn_args.i1, fn_args.d1)
    /\ UNCHANGED << fn_args, geoVars, canvasVars, renderVars, traceVars >>

NextInterpolate == Interpolate

SpecInterpolate == InitInterpolate /\ [][NextInterpolate]_vars

(***************************************************************************)
(* Plane, SceneModel::get_bounding_sphere and Canvas::clip_model.  A model *)
(* is [vertices, triangles], a triangle [vids, color] with vids indexing   *)
(* the vertices from 1.                                                    *)
(***************************************************************************)
Plane_signed_distance(plane, p) == RAdd(HDot(plane.normal, p), plane.d)

\* A mutant: t is measured from a away from b.
Plane_intersection_backwards(plane, a, b) ==
    LET ab == HSub(b, a)
        denom == HDot(plane.normal, ab)
    IN  IF denom = Zero THEN None
        ELSE LET t == RDiv(RAdd(plane.d, HDot(plane.normal, a)), denom)
             IN  Some(<< t, HAdd(a, HMul(ab, t)) >>)

\* A mutant: the point halfway between a and b, whatever the plane.
Plane_intersection_halfway(plane, a, b) ==
    LET ab == HSub(b, a)
        denom == HDot(plane.normal, ab)
    IN  IF denom = Zero THEN None
        ELSE Some(<< Rat(1, 2), HAdd(a, HMul(ab, Rat(1, 2))) >>)

\* Plane::intersection: (t, point), or None when the segment is parallel to
\* the plane.
Plane_intersection(plane, a, b) ==
    LET ab == HSub(b, a)
        denom == HDot(plane.normal, ab)
    IN  IF denom = Zero THEN None
        ELSE LET t == RDiv(RSub(RNeg(plane.d), HDot(plane.normal, a)), denom)
             IN  Some(<< t, HAdd(a, HMul(ab, t)) >>)

RECURSIVE SumOfPoints(_)
SumOfPoints(points) ==
    IF points = << >> THEN << Zero, Zero, Zero, Zero >>
    ELSE HAdd(SumOfPoints(SubSeq(points, 1, Len(points) - 1)), points[Len(points)])

\* max_by(partial_cmp) over the distances, 0 for no vertex.
RECURSIVE MaxLength(_, _)
MaxLength(points, center) ==
    IF points = << >> THEN Zero
    ELSE LET rest == MaxLength(Tail(points), center)
             first == HLength(HSub(Head(points), center))
         IN  IF Len(points) = 1 \/ RGt(first, rest) THEN first ELSE rest

get_bounding_sphere(model) ==
    LET center == HDiv(SumOfPoints(model.vertices), Int2R(Len(model.vertices)))
    IN  [center |-> center, radius |-> MaxLength(model.vertices, center)]

\* A mutant: the model is rejected as soon as the centre of its bounding
\* sphere lies behind a plane.
RECURSIVE intersection_planes_from_centre(_, _, _, _)
intersection_planes_from_centre(clipping_planes, bounding_sphere, k, found) ==
    IF k > Len(clipping_planes) THEN Some(found)
    ELSE LET d == Plane_signed_distance(clipping_planes[k], bounding_sphere.center)
         IN  IF RLt(d, Zero) THEN None
             ELSE intersection_planes_from_centre(
                      clipping_planes, bounding_sphere, k + 1,
                      IF RLt(d, bounding_sphere.radius)
                      THEN Append(found, clipping_planes[k]) ELSE found)

\* The planes the bounding sphere crosses, in order; None when the sphere lies
\* wholly outside one of the planes.
RECURSIVE intersection_planes_from(_, _, _, _)
intersection_planes_from(clipping_planes, bounding_sphere, k, found) ==
    IF k > Len(clipping_planes) THEN Some(found)
    ELSE LET d == Plane_signed_distance(clipping_planes[k], bounding_sphere.center)
         IN  IF RLt(d, RNeg(bounding_sphere.radius)) THEN None
             ELSE intersection_planes_from(
                      clipping_planes, bounding_sphere, k + 1,
                      IF RLt(d, bounding_sphere.radius)
                      THEN Append(found, clipping_planes[k]) ELSE found)

rotate_left(pairs) == << pairs[2], pairs[3], pairs[1] >>
rotate_right(pairs) == << pairs[3], pairs[1], pairs[2] >>

\* A mutant: the pairs are left in the order of the triangle's vertices.
rotate_to_greatest_not(pairs) == pairs

\* The loop that rotates the pairs until the first has the greatest distance.
RECURSIVE rotate_to_greatest(_)
rotate_to_greatest(pairs) ==
    IF RLt(pairs[1].distance, pairs[2].distance) \/ RLt(pairs[1].distance, pairs[3].distance)
    THEN rotate_to_greatest(rotate_left(pairs))
    ELSE pairs

\* distance_id_pairs[1].0 <= 0. && distance_id_pairs[2].0 <= 0.
is_single_corner(pairs) ==
    RLe(pairs[2].distance, Zero) /\ RLe(pairs[3].distance, Zero)

\* A mutant: the corner that is kept is pushed again with the two new vertices.
clip_triangle_copying_corner(plane, clipped, triangle) ==
    LET vertices == clipped.vertices
        pairs == rotate_to_greatest(
                     [k \in 1..3 |->
                         [distance |-> Plane_signed_distance(plane, vertices[triangle.vids[k]]),
                          vid |-> triangle.vids[k]]])
        l == Len(vertices)
    IN  IF RLe(pairs[1].distance, Zero) THEN clipped
        ELSE IF RGe(pairs[2].distance, Zero) /\ RGe(pairs[3].distance, Zero)
        THEN [clipped EXCEPT !.triangles = Append(@, triangle)]
        ELSE IF is_single_corner(pairs)
        THEN LET b == Unwrap(Plane_intersection(plane, vertices[pairs[1].vid],
                                                vertices[pairs[2].vid]))[2]
                 c == Unwrap(Plane_intersection(plane, vertices[pairs[1].vid],
                                                vertices[pairs[3].vid]))[2]
             IN  [vertices |-> vertices \o << vertices[pairs[1].vid], b, c >>,
                  triangles |-> Append(clipped.triangles,
                                       [vids |-> << l + 1, l + 2, l + 3 >>,
                                        color |-> triangle.color])]
        ELSE LET turned == IF RGt(pairs[3].distance, Zero)
                           THEN rotate_right(pairs) ELSE pairs
                 a == Unwrap(Plane_intersection(plane, vertices[turned[1].vid],
                                                vertices[turned[3].vid]))[2]
                 b == Unwrap(Plane_intersection(plane, vertices[turned[2].vid],
                                                vertices[turned[3].vid]))[2]
             IN  [vertices |-> vertices \o << a, b >>,
                  triangles |-> clipped.triangles \o
                      << [vids |-> << turned[1].vid, turned[2].vid, l + 1 >>,
                          color |-> triangle.color],
                         [vids |-> << turned[2].vid, l + 2, l + 1 >>,
                          color |-> triangle.color] >>]

\* The body of the loop over the triangles: what one triangle adds to the
\* vertices and to the triangles clipped so far.
clip_triangle(plane, clipped, triangle) ==
    LET vertices == clipped.vertices
        pairs == rotate_to_greatest(
                     [k \in 1..3 |->
                         [distance |-> Plane_signed_distance(plane, vertices[triangle.vids[k]]),
                          vid |-> triangle.vids[k]]])
        l == Len(vertices)
    IN  IF RLe(pairs[1].distance, Zero) THEN clipped
        ELSE IF RGe(pairs[2].distance, Zero) /\ RGe(pairs[3].distance, Zero)
        THEN [clipped EXCEPT !.triangles = Append(@, triangle)]
        ELSE IF is_single_corner(pairs)
        THEN LET b == Unwrap(Plane_intersection(plane, vertices[pairs[1].vid],
                                                vertices[pairs[2].vid]))[2]
                 c == Unwrap(Plane_intersection(plane, vertices[pairs[1].vid],
                                                vertices[pairs[3].vid]))[2]
             IN  [vertices |-> vertices \o << b, c >>,
                  triangles |-> Append(clipped.triangles,
                                       [vids |-> << pairs[1].vid, l + 1, l + 2 >>,
                                        color |-> triangle.color])]
        ELSE LET turned == IF RGt(pairs[3].distance, Zero)
                           THEN rotate_right(pairs) ELSE pairs
                 a == Unwrap(Plane_intersection(plane, vertices[turned[1].vid],
                                                vertices[turned[3].vid]))[2]
                 b == Unwrap(Plane_intersection(plane, vertices[turned[2].vid],
                                                vertices[turned[3].vid]))[2]
             IN  [vertices |-> vertices \o << a, b >>,
                  triangles |-> clipped.triangles \o
                      << [vids |-> << turned[1].vid, turned[2].vid, l + 1 >>,
                          color |-> triangle.color],
                         [vids |-> << turned[2].vid, l + 2, l + 1 >>,
                          color |-> triangle.color] >>]

\* The segments clip_model hands to plane.intersection for one triangle, as
\* pairs of vertex indices in the order of the calls: none when the triangle
\* is dropped or kept whole.
cut_segments(plane, vertices, triangle) ==
    LET pairs == rotate_to_greatest(
                     [k \in 1..3 |->
                         [distance |-> Plane_signed_distance(plane, vertices[triangle.vids[k]]),
                          vid |-> triangle.vids[k]]])
    IN  IF RLe(pairs[1].distance, Zero) THEN << >>
        ELSE IF RGe(pairs[2].distance, Zero) /\ RGe(pairs[3].distance, Zero) THEN << >>
        ELSE IF is_single_corner(pairs)
        THEN << << pairs[1].vid, pairs[2].vid >>, << pairs[1].vid, pairs[3].vid >> >>
        ELSE LET turned == IF RGt(pairs[3].distance, Zero)
                           THEN rotate_right(pairs) ELSE pairs
             IN  << << turned[1].vid, turned[3].vid >>, << turned[2].vid, turned[3].vid >> >>

\* The loop over the triangles trs for one plane.
RECURSIVE clip_triangles(_, _, _)
clip_triangles(plane, clipped, trs) ==
    IF trs = << >> THEN clipped
    ELSE clip_triangles(plane, clip_triangle(plane, clipped, Head(trs)), Tail(trs))

\* The loop over the planes that cross the bounding sphere.
RECURSIVE clip_planes(_, _)
clip_planes(planes, model) ==
    IF planes = << >> THEN model
    ELSE clip_planes(Tail(planes),
                     clip_triangles(Head(planes),
                                    [vertices |-> model.vertices, triangles |-> << >>],
                                    model.triangles))

clip_model(clipping_planes, model) ==
    LET crossed == intersection_planes_from(clipping_planes, get_bounding_sphere(model),
                                            1, << >>)
    IN  IF IsNone(crossed) THEN None
        ELSE IF Len(Unwrap(crossed)) = 0 THEN Some(model)
        ELSE LET clipped == clip_planes(Unwrap(crossed), model)
             IN  IF Len(clipped.triangles) = 0 THEN None ELSE Some(clipped)

\* One triangle, its three vertices at different heights y, and one plane with
\* a normal of length 1: the near plane z = 1, the plane x = 0 and a slanted one.
ClipVertices(y) == { Pt(x, y, z) : x \in Coord, z \in 0..(MaxCoord + 1) }
ClipModels ==
    { [vertices |-> << a, b, c >>,
       triangles |-> << [vids |-> << 1, 2, 3 >>, color |-> Red] >>] :
        a \in ClipVertices(0), b \in ClipVertices(1), c \in ClipVertices(-1) }
ClipPlanes ==
    { [normal |-> Vec(0, 0, 1), d |-> Int2R(-1)],
      [normal |-> Vec(1, 0, 0), d |-> Zero],
      [normal |-> << Rat(3, 5), Zero, Rat(4, 5), Zero >>, d |-> Int2R(-1)] }

InitClip ==
    /\ GeoIdle
    /\ CanvasIdle
    /\ RenderIdle
    /\ TraceIdle
    /\ fn_pc = "input"
    /\ fn_args \in [clipping_planes : { << plane >> : plane \in ClipPlanes },
                    model : ClipModels]
    /\ fn_result = << >>

ClipModel ==
    /\ fn_pc = "input"
    /\ "clipping_planes" \in DOMAIN fn_args
    /\ fn_pc' = "Canvas::clip_model"
    /\ fn_result' = clip_model(fn_args.clipping_planes, fn_args.model)
    /\ UNCHANGED << fn_args, geoVars, canvasVars, renderVars, traceVars >>

NextClip == ClipModel

SpecClip == InitClip /\ [][NextClip]_vars

\* clip_model with several planes: a triangle and a rectangle of two triangles,
\* whose bounding spheres have the radii 2 and 1, moved about the planes
\* z >= 1, x >= -1, x <= 1 and a slanted one.
Shapes ==
    { [vertices |-> << << Rat(-3, 4), Zero, Int2R(-1), One >>,
                       << Rat(3, 4), Zero, Int2R(-1), One >>,
                       << Zero, Zero, Int2R(2), One >> >>,
       triangles |-> << [vids |-> << 1, 2, 3 >>, color |-> Red] >>],
      [vertices |-> << << Rat(-3, 5), Rat(-4, 5), Zero, One >>,
                       << Rat(3, 5), Rat(-4, 5), Zero, One >>,
                       << Rat(3, 5), Rat(4, 5), Zero, One >>,
                       << Rat(-3, 5), Rat(4, 5), Zero, One >> >>,
       triangles |-> << [vids |-> << 1, 2, 3 >>, color |-> Red],
                        [vids |-> << 1, 3, 4 >>, color |-> Vivid] >>] }
Moved(shape, x, z) ==
    [shape EXCEPT !.vertices =
        [k \in DOMAIN shape.vertices |-> HAdd(shape.vertices[k], Vec(x, 0, z))]]
CullModels == { Moved(shape, x, z) : shape \in Shapes, x \in -3..3, z \in -2..4 }
CullPlanes ==
    { [normal |-> Vec(0, 0, 1), d |-> Int2R(-1)],
      [normal |-> Vec(1, 0, 0), d |-> One],
      [normal |-> Vec(-1, 0, 0), d |-> One],
      [normal |-> << Rat(3, 5), Zero, Rat(4, 5), Zero >>, d |-> Int2R(-1)] }
PlaneLists == UNION { [1..n -> CullPlanes] : n \in 0..MaxPlanes }

InitCull ==
    /\ GeoIdle
    /\ CanvasIdle
    /\ RenderIdle
    /\ TraceIdle
    /\ fn_pc = "input"
    /\ fn_args \in [clipping_planes : PlaneLists, model : CullModels]
    /\ fn_result = << >>

SpecCull == InitCull /\ [][NextClip]_vars

(***************************************************************************)
(* HomogeneousMatrix: four rows of four numbers.                           *)
(***************************************************************************)
identity ==
    << << One, Zero, Zero, Zero >>, << Zero, One, Zero, Zero >>,
       << Zero, Zero, One, Zero >>, << Zero, Zero, Zero, One >> >>

translation(tx, ty, tz) ==
    << << One, Zero, Zero, tx >>, << Zero, One, Zero, ty >>,
       << Zero, Zero, One, tz >>, << Zero, Zero, Zero, One >> >>

\* impl Mul: mat[i][j] is the sum over k of l_mat[i][k] * r_mat[k][j], added up
\* from k = 0 starting at 0.
MatMul(l_mat, r_mat) ==
    [i \in 1..4 |->
        [j \in 1..4 |->
            RAdd(RAdd(RAdd(RAdd(Zero, RMul(l_mat[i][1], r_mat[1][j])),
                           RMul(l_mat[i][2], r_mat[2][j])),
                      RMul(l_mat[i][3], r_mat[3][j])),
                 RMul(l_mat[i][4], r_mat[4][j]))]]

\* A mutant: the fold multiplies from the other side.
RECURSIVE compose_reversed(_)
compose_reversed(m) ==
    IF m = << >> THEN identity
    ELSE MatMul(m[Len(m)], compose_reversed(SubSeq(m, 1, Len(m) - 1)))

\* fold(identity, |acc, x| acc * x)
RECURSIVE compose(_)
compose(m) ==
    IF m = << >> THEN identity
    ELSE MatMul(compose(SubSeq(m, 1, Len(m) - 1)), m[Len(m)])

Matrix_dot(self, rhs) == [i \in 1..4 |-> HDot(self[i], rhs)]

transposed(mat) == [i \in 1..4 |-> [j \in 1..4 |-> mat[j][i]]]

canonical(p) ==
    IF p[4] = Zero \/ p[4] = One THEN p
    ELSE << RDiv(p[1], p[4]), RDiv(p[2], p[4]), RDiv(p[3], p[4]), One >>

(***************************************************************************)
(* The camera of a Scene: [viewport_width, viewport_height,                *)
(* camera_position, camera_rotation, camera_distance].                     *)
(***************************************************************************)
get_camera_matrix(scene) ==
    LET pos == scene.camera_position
    IN  compose(<< transposed(scene.camera_rotation),
                   translation(RNeg(pos[1]), RNeg(pos[2]), RNeg(pos[3])) >>)

get_projection_matrix(scene, canvas_width, canvas_height) ==
    LET d == scene.camera_distance
    IN  compose(<<
            << << d, Zero, Zero, Zero >>, << Zero, d, Zero, Zero >>,
               << Zero, Zero, One, Zero >>, << Zero, Zero, One, Zero >> >>,
            << << RDiv(Int2R(canvas_width), scene.viewport_width), Zero, Zero, Zero >>,
               << Zero, RDiv(Int2R(canvas_height), scene.viewport_height), Zero, Zero >>,
               << Zero, Zero, One, Zero >>, << Zero, Zero, Zero, One >> >> >>)

Plane_from_points(a, b, c) ==
    LET cross == HCross(HSub(b, a), HSub(c, a))
        normal == HDiv(cross, HLength(cross))
    IN  [normal |-> normal, d |-> RNeg(HDot(normal, a))]

get_clipping_planes(scene) ==
    LET half_w == RDiv(scene.viewport_width, Int2R(2))
        half_h == RDiv(scene.viewport_height, Int2R(2))
        camera_pos == Pt(0, 0, 0)
        top_left == << RNeg(half_w), half_h, scene.camera_distance, One >>
        top_right == << half_w, half_h, scene.camera_distance, One >>
        bottom_right == << half_w, RNeg(half_h), scene.camera_distance, One >>
        bottom_left == << RNeg(half_w), RNeg(half_h), scene.camera_distance, One >>
    IN  << [normal |-> Vec(0, 0, 1), d |-> RNeg(scene.camera_distance)],
           Plane_from_points(camera_pos, top_left, bottom_left),
           Plane_from_points(camera_pos, top_right, top_left),
           Plane_from_points(camera_pos, bottom_right, top_right),
           Plane_from_points(camera_pos, bottom_left, bottom_right) >>

(***************************************************************************)
(* compose, dot and get_camera_matrix applied to matrices whose entries    *)
(* are exact: translations, a scaling and quarter turns.                   *)
(***************************************************************************)
scale(s) ==
    << << s, Zero, Zero, Zero >>, << Zero, s, Zero, Zero >>,
       << Zero, Zero, s, Zero >>, << Zero, Zero, Zero, One >> >>

\* rotation_y and rotation_z with sin = 1, cos = 0.
QuarterTurnY ==
    << << Zero, Zero, One, Zero >>, << Zero, One, Zero, Zero >>,
       << RNeg(One), Zero, Zero, Zero >>, << Zero, Zero, Zero, One >> >>
QuarterTurnZ ==
    << << Zero, RNeg(One), Zero, Zero >>, << One, Zero, Zero, Zero >>,
       << Zero, Zero, One, Zero >>, << Zero, Zero, Zero, One >> >>

MatrixPool ==
    { translation(One, Int2R(2), Int2R(3)), scale(Int2R(2)), QuarterTurnY, QuarterTurnZ }
MatrixLists ==
    UNION { [1..n -> MatrixPool] : n \in 0..MaxMatrices }
Coordinates == { Pt(0, 0, 0), Pt(1, 2, 3), Pt(-1, 0, 2), Vec(1, 0, 0), Vec(1, 2, 3) }

CameraPositions == { Pt(0, 0, 0), Pt(1, 0, 0), Pt(1, 2, 3) }
CameraRotations == { identity, QuarterTurnY, QuarterTurnZ }
CameraScenes ==
    { [viewport_width |-> One, viewport_height |-> One,
       camera_position |-> pos, camera_rotation |-> rot, camera_distance |-> One] :
        pos \in CameraPositions, rot \in CameraRotations }

InitMatrix ==
    /\ GeoIdle
    /\ CanvasIdle
    /\ RenderIdle
    /\ TraceIdle
    /\ fn_pc = "input"
    /\ fn_args \in [m : MatrixLists, rhs : Coordinates]
                    \cup [scene : CameraScenes, rhs : Coordinates]
    /\ fn_result = << >>

\* Matrix::compose(m).dot(&rhs)
Compose ==
    /\ fn_pc = "input"
    /\ "m" \in DOMAIN fn_args
    /\ fn_pc' = "compose"
    /\ \E matrix \in { compose(fn_args.m) } :
          fn_result' = [matrix |-> matrix, image |-> Matrix_dot(matrix, fn_args.rhs)]
    /\ UNCHANGED << fn_args, geoVars, canvasVars, renderVars, traceVars >>

\* scene.get_camera_matrix().dot(&rhs)
CameraMatrix ==
    /\ fn_pc = "input"
    /\ "scene" \in DOMAIN fn_args
    /\ fn_pc' = "get_camera_matrix"
    /\ \E matrix \in { get_camera_matrix(fn_args.scene) } :
          fn_result' = [matrix |-> matrix, image |-> Matrix_dot(matrix, fn_args.rhs)]
    /\ UNCHANGED << fn_args, geoVars, canvasVars, renderVars, traceVars >>

NextMatrix ==
    \/ Compose
    \/ CameraMatrix

SpecMatrix == InitMatrix /\ [][NextMatrix]_vars

(***************************************************************************)
(* Canvas::rasterize of a scene with one instance, on a canvas             *)
(* [width, height, image_data, depth_buffer].                              *)
(***************************************************************************)
\* if self.update_depth_buffer(x, y, iz) { self.put_pixel(x, y, color); }
draw_fragment(canvas, x, y, iz, color) ==
    LET pos == CanvasPosition(canvas.width, canvas.height, x, y)
        i == IF IsSome(pos)
             THEN index(canvas.width, canvas.height, Unwrap(pos)[1], Unwrap(pos)[2])
             ELSE None
    IN  IF IsSome(i) /\ depth_test(canvas.depth_buffer[Unwrap(i)], iz)
        THEN [canvas EXCEPT !.depth_buffer[Unwrap(i)] = iz,
                            !.image_data[Unwrap(i)] = clamp(color)]
        ELSE canvas

\* The one element of a singleton set.  A value bound to a name through
\* v \in { e } is computed once, before the expression that uses the name.
TheOne(S) == CHOOSE v \in S : TRUE

\* f64::round() as i32: NaN gives 0 and the infinities the ends of i32; the
\* finite numbers of the model lie far inside i32.
round_as_i32(x) ==
    IF x.d # 0 THEN RRound(x)
    ELSE IF x.n > 0 THEN 2147483647
    ELSE IF x.n < 0 THEN -2147483647 - 1
    ELSE 0

\* for x in l..=r, from x on.
RECURSIVE fill_row(_, _, _, _, _, _, _)
fill_row(canvas, y, x, l, r, izs, color) ==
    IF x > r THEN canvas
    ELSE TheOne({ fill_row(drawn, y, x + 1, l, r, izs, color) :
                    drawn \in { draw_fragment(canvas, x, y, izs[x - l + 1], color) } })

\* for y in y0..=y2, from y on.
RECURSIVE fill_rows(_, _, _, _, _, _)
fill_rows(canvas, y, y0, y2, sides, color) ==
    IF y > y2 THEN canvas
    ELSE LET i == y - y0 + 1
             l == round_as_i32(sides.x_left[i])
             r == round_as_i32(sides.x_right[i])
         IN  TheOne({ fill_rows(filled, y + 1, y0, y2, sides, color) :
                        filled \in { fill_row(canvas, y, l, l, r, izs, color) :
                                       izs \in { interpolate(l, sides.iz_left[i],
                                                             r, sides.iz_right[i]) } } })

\* The three swaps that order the points by y.
sort_by_y(points) ==
    LET s1 == IF RLt(points[2][2], points[1][2])
              THEN << points[2], points[1], points[3] >> ELSE points
        s2 == IF RLt(s1[3][2], s1[1][2]) THEN << s1[3], s1[2], s1[1] >> ELSE s1
    IN  IF RLt(s2[3][2], s2[2][2]) THEN << s2[1], s2[3], s2[2] >> ELSE s2

\* x01.pop(); x01.append(&mut x12)
joined(first, second) == SubSeq(first, 1, Len(first) - 1) \o second

\* The canvas after draw_shaded_triangle, or None when the assertion
\* x02.len() == x012.len() fails.
draw_shaded_triangle(canvas, q0, q1, q2, color) ==
    LET p == sort_by_y(<< q0, q1, q2 >>)
        y0 == round_as_i32(p[1][2])
        y1 == round_as_i32(p[2][2])
        y2 == round_as_i32(p[3][2])
        iz0 == RDiv(One, p[1][3])
        iz1 == RDiv(One, p[2][3])
        iz2 == RDiv(One, p[3][3])
    IN  TheOne({
            LET m == Len(x02) \div 2 + 1
            IN  IF Len(x02) # Len(x012) THEN None
                ELSE IF RLt(x02[m], x012[m])
                THEN Some(fill_rows(canvas, y0, y0, y2,
                                    [x_left |-> x02, x_right |-> x012,
                                     iz_left |-> iz02, iz_right |-> iz012], color))
                ELSE Some(fill_rows(canvas, y0, y0, y2,
                                    [x_left |-> x012, x_right |-> x02,
                                     iz_left |-> iz012, iz_right |-> iz02], color)) :
            x02 \in { interpolate(y0, p[1][1], y2, p[3][1]) },
            iz02 \in { interpolate(y0, iz0, y2, iz2) },
            x012 \in { joined(interpolate(y0, p[1][1], y1, p[2][1]),
                              interpolate(y1, p[2][1], y2, p[3][1])) },
            iz012 \in { joined(interpolate(y0, iz0, y1, iz1),
                               interpolate(y1, iz1, y2, iz2)) } })

\* A triangle is drawn when it faces the camera; None when drawing it aborts.
render_triangle(canvas, triangle, projected, model_vertices) ==
    LET i == triangle.vids[1]
        j == triangle.vids[2]
        k == triangle.vids[3]
        normal == Triangle_new(model_vertices[i], model_vertices[j], model_vertices[k]).normal
        center == HDiv(HAdd(HAdd(model_vertices[i], model_vertices[j]), model_vertices[k]),
                       Int2R(3))
    IN  IF RLt(HDot(normal, center), Zero)
        THEN draw_shaded_triangle(canvas, projected[i], projected[j], projected[k],
                                  triangle.color)
        ELSE Some(canvas)

RECURSIVE render_triangles(_, _, _, _)
render_triangles(canvas, triangles, projected, model_vertices) ==
    IF triangles = << >> THEN Some(canvas)
    ELSE TheOne({ IF IsNone(drawn) THEN None
                  ELSE render_triangles(Unwrap(drawn), Tail(triangles), projected,
                                        model_vertices) :
                    drawn \in { render_triangle(canvas, Head(triangles), projected,
                                                model_vertices) } })

\* A mutant: the model is drawn as it is when clip_model returns none.
clipped_or_whole(clipping_planes, model) ==
    LET clipped == clip_model(clipping_planes, model)
    IN  IF IsNone(clipped) THEN Some(model) ELSE clipped

\* Self::clip_model(&clipping_planes, model)
clipped_model(clipping_planes, model) == clip_model(clipping_planes, model)

\* let mut p = projection.dot(v).canonical(); p.set_z(v.z()); p
project(projection, v) == [canonical(Matrix_dot(projection, v)) EXCEPT ![3] = v[3]]

\* The part of the loop's body after clip_model.
render_clipped(canvas, projection, clipped) ==
    IF IsNone(clipped) THEN Some(canvas)
    ELSE TheOne({ render_triangles(canvas, Unwrap(clipped).triangles, projected,
                                   Unwrap(clipped).vertices) :
                    projected \in { [k \in DOMAIN Unwrap(clipped).vertices |->
                                        project(projection, Unwrap(clipped).vertices[k])] } })

\* The body of rasterize's loop for one instance of one model: the canvas
\* after it, or None when it aborts.
rasterize_instance(canvas, scene, model, instance) ==
    TheOne({ render_clipped(canvas, projection, clipped) :
               projection \in { get_projection_matrix(scene, canvas.width, canvas.height) },
               clipped \in { clipped_model(planes,
                                           [vertices |-> vertices,
                                            triangles |-> model.triangles]) :
                             planes \in { get_clipping_planes(scene) },
                             vertices \in { [k \in DOMAIN model.vertices |->
                                               Matrix_dot(transform, model.vertices[k])] :
                                            transform \in { MatMul(get_camera_matrix(scene),
                                                                   instance.transform) } } } })

\* The scenes: a viewport of 3/2 by 3/2 at distance 1, for which the normals of
\* the side planes are rational; the camera at the origin or beside it.
RasterScenes ==
    { [viewport_width |-> Rat(3, 2), viewport_height |-> Rat(3, 2),
       camera_position |-> pos, camera_rotation |-> identity,
       camera_distance |-> One] : pos \in { Pt(0, 0, 0), Pt(1, 0, 0) } }

OneTriangle(a, b, c) ==
    [vertices |-> << a, b, c >>,
     triangles |-> << [vids |-> << 1, 2, 3 >>, color |-> Red] >>]

\* A triangle in the plane z = 0 facing the camera and the same seen from
\* behind, placed beside, above, below, behind and in front of the camera; and
\* a triangle leaning away from the camera, placed on its axis beyond the
\* near plane.
FlatModels ==
    { OneTriangle(Pt(-1, -1, 0), Pt(0, 1, 0), Pt(1, -1, 0)),
      OneTriangle(Pt(-1, -1, 0), Pt(1, -1, 0), Pt(0, 1, 0)) }
LeaningModel == OneTriangle(Pt(-1, -1, 0), << Zero, One, Rat(3, 2), One >>, Pt(1, -1, 0))
\* The depths of the placements: whole numbers from the camera on, and one
\* between the camera and the near plane.
Depths == { Int2R(z) : z \in 0..(MaxCoord + 2) } \cup { Rat(1, 2) }
Placed(x, y, z) == [transform |-> translation(Int2R(x), Int2R(y), z)]
RasterInputs ==
    { [scene |-> scene, model |-> model, instance |-> Placed(3 * x, 3 * y, z)] :
        scene \in RasterScenes, model \in FlatModels,
        x \in Coord, y \in Coord, z \in Depths }
    \cup { [scene |-> scene, model |-> LeaningModel, instance |-> Placed(0, 0, z)] :
             scene \in RasterScenes, z \in { u \in Depths : RGt(u, One) } }

CanvasSide == 2 * MaxDim

InitRaster ==
    /\ GeoIdle
    /\ RenderIdle
    /\ TraceIdle
    /\ cv_state = "live"
    /\ cv_width = CanvasSide
    /\ cv_height = CanvasSide
    /\ image_data = NewBuffer(CanvasSide * CanvasSide, clamp(Background))
    /\ depth_buffer = NewBuffer(CanvasSide * CanvasSide, Zero)
    /\ cv_ops = 0
    /\ cv_last = [op |-> "new", width |-> CanvasSide, height |-> CanvasSide]
    /\ fn_pc = "input"
    /\ fn_args \in RasterInputs
    /\ fn_result = << >>

\* Canvas::rasterize(scene); cv_last keeps the buffers as they were before.
Rasterize ==
    /\ fn_pc = "input"
    /\ "instance" \in DOMAIN fn_args
    /\ cv_state = "live"
    /\ fn_pc' = "Canvas::rasterize"
    /\ \E canvas \in { rasterize_instance(
                             [width |-> cv_width, height |-> cv_height,
                              image_data |-> image_data, depth_buffer |-> depth_buffer],
                             fn_args.scene, fn_args.model, fn_args.instance) } :
          IF IsNone(canvas)
          THEN /\ cv_state' = "aborted"
               /\ UNCHANGED << image_data, depth_buffer >>
          ELSE /\ image_data' = Unwrap(canvas).image_data
               /\ depth_buffer' = Unwrap(canvas).depth_buffer
               /\ UNCHANGED cv_state
    /\ cv_last' = [op |-> "rasterize", image_data |-> image_data,
                   depth_buffer |-> depth_buffer]
    /\ UNCHANGED << cv_width, cv_height, cv_ops, fn_args, fn_result >>
    /\ UNCHANGED << geoVars, renderVars, traceVars >>

NextRaster == Rasterize

SpecRaster == InitRaster /\ [][NextRaster]_vars

\* draw_shaded_triangle on its own, on a canvas of 4 by 3 as Canvas::new leaves
\* it: points on the canvas and off it, at two depths, one of them with a y
\* that is not a number.
ShadeWidth == 4
ShadeHeight == 3
ShadeXs == { Int2R(-2), Zero, Int2R(3) }
ShadeYs == { Int2R(-1), Zero, Int2R(2), NaN }
ShadePoints(ys, zs) == { << x, y, z, One >> : x \in ShadeXs, y \in ys, z \in zs }

InitShade ==
    /\ GeoIdle
    /\ RenderIdle
    /\ TraceIdle
    /\ cv_state = "live"
    /\ cv_width = ShadeWidth
    /\ cv_height = ShadeHeight
    /\ image_data = NewBuffer(ShadeWidth * ShadeHeight, clamp(Background))
    /\ depth_buffer = NewBuffer(ShadeWidth * ShadeHeight, Zero)
    /\ cv_ops = 0
    /\ cv_last = [op |-> "new", width |-> ShadeWidth, height |-> ShadeHeight]
    /\ fn_pc = "input"
    /\ fn_args \in [p0 : ShadePoints(ShadeYs \ { NaN }, { One, Int2R(2) }),
                    p1 : ShadePoints(ShadeYs, { One }),
                    p2 : ShadePoints(ShadeYs \ { NaN }, { One }),
                    color : { Red }]
    /\ fn_result = << >>

\* canvas.draw_shaded_triangle(p0, p1, p2, color); cv_last keeps the buffers as
\* they were before.
DrawShadedTriangle ==
    /\ fn_pc = "input"
    /\ "p0" \in DOMAIN fn_args
    /\ cv_state = "live"
    /\ fn_pc' = "Canvas::draw_shaded_triangle"
    /\ \E canvas \in { draw_shaded_triangle(
                             [width |-> cv_width, height |-> cv_height,
                              image_data |-> image_data, depth_buffer |-> depth_buffer],
                             fn_args.p0, fn_args.p1, fn_args.p2, fn_args.color) } :
          IF IsNone(canvas)
          THEN /\ cv_state' = "aborted"
               /\ UNCHANGED << image_data, depth_buffer >>
          ELSE /\ image_data' = Unwrap(canvas).image_data
               /\ depth_buffer' = Unwrap(canvas).depth_buffer
               /\ UNCHANGED cv_state
    /\ cv_last' = [op |-> "draw_shaded_triangle", image_data |-> image_data,
                   depth_buffer |-> depth_buffer]
    /\ UNCHANGED << cv_width, cv_height, cv_ops, fn_args, fn_result >>
    /\ UNCHANGED << geoVars, renderVars, traceVars >>

NextShade == DrawShadedTriangle

SpecShade == InitShade /\ [][NextShade]_vars

\* The fill loop on its own: a set of at most MaxOps fragments is drawn on a
\* fresh canvas one fragment at a time, in any order; fn_result lists the
\* fragments drawn so far.  Two pixels of the canvas and one place off it;
\* inverse depths on both sides of the sentinel, the sentinel, and 1 / 0.
FillPlaces == { << 0, 0 >>, << 1, 0 >>, << ShadeWidth, 0 >> }
FillDepths == InverseDepths \cup { PosInf }
Fragments == [at : FillPlaces, iz : FillDepths, color : Colors]
\* The sets of at most n fragments.
RECURSIVE FragmentSets(_)
FragmentSets(n) ==
    IF n = 0 THEN { {} }
    ELSE LET smaller == FragmentSets(n - 1)
         IN  smaller \cup { S \cup { f } : S \in smaller, f \in Fragments }

InitFill ==
    /\ GeoIdle
    /\ RenderIdle
    /\ TraceIdle
    /\ cv_state = "live"
    /\ cv_width = ShadeWidth
    /\ cv_height = ShadeHeight
    /\ image_data = NewBuffer(ShadeWidth * ShadeHeight, clamp(Background))
    /\ depth_buffer = NewBuffer(ShadeWidth * ShadeHeight, Zero)
    /\ cv_ops = 0
    /\ cv_last = [op |-> "new", width |-> ShadeWidth, height |-> ShadeHeight]
    /\ fn_pc = "input"
    /\ fn_args \in [fragments : FragmentSets(MaxOps)]
    /\ fn_result = << >>

\* One more fragment of the set:
\*     if self.update_depth_buffer(x, y, iz) { self.put_pixel(x, y, color); }
Fill ==
    /\ fn_pc \in { "input", "fill" }
    /\ "fragments" \in DOMAIN fn_args
    /\ cv_state = "live"
    /\ \E f \in fn_args.fragments :
          /\ \A k \in DOMAIN fn_result : fn_result[k] # f
          /\ fn_result' = Append(fn_result, f)
          /\ cv_last' = [op |-> "fragment", x |-> f.at[1], y |-> f.at[2], iz |-> f.iz,
                         color |-> f.color]
          /\ \E canvas \in { draw_fragment(
                                   [width |-> cv_width, height |-> cv_height,
                                    image_data |-> image_data,
                                    depth_buffer |-> depth_buffer],
                                   f.at[1], f.at[2], f.iz, f.color) } :
                /\ image_data' = canvas.image_data
                /\ depth_buffer' = canvas.depth_buffer
    /\ fn_pc' = "fill"
    /\ cv_ops' = cv_ops + 1
    /\ UNCHANGED << cv_state, cv_width, cv_height, fn_args >>
    /\ UNCHANGED << geoVars, renderVars, traceVars >>

NextFill == Fill

SpecFill == InitFill /\ [][NextFill]_vars

(***************************************************************************)
(* Properties of the sphere primitive and the sphere object.               *)
(***************************************************************************)
RMin(x, y) == IF RLe(x, y) THEN x ELSE y
RMax(x, y) == IF RLe(x, y) THEN y ELSE x

\* The point O + tD of the ray lies on the sphere: |O + tD - C|^2 = r^2.
OnSphere(sphere, ray, t) ==
    LET p == HSub(HAdd(ray.origin, HMul(ray.direction, t)), sphere.center)
    IN  HDot(p, p) = RMul(sphere.radius, sphere.radius)

\* C8: Sphere::compute_ray_intersection returns no intersection exactly when the
\* discriminant b^2 - 4ac is negative, and otherwise a pair (t1, t2) with t1 <= t2,
\* both solving |O + tD - C|^2 = r^2; the roots are not filtered by any t range
\* (a positive discriminant gives both distinct roots, whatever their sign).
C8_SphereRoots ==
    geo_pc = "compute_ray_intersection" =>
        /\ IsNone(geo_roots) <=> RLt(Discriminant(geo_a, geo_ray), Zero)
        /\ IsSome(geo_roots) =>
              LET t1 == Unwrap(geo_roots)[1]
                  t2 == Unwrap(geo_roots)[2]
              IN  /\ RLe(t1, t2)
                  /\ OnSphere(geo_a, geo_ray, t1)
                  /\ OnSphere(geo_a, geo_ray, t2)
                  /\ RGt(Discriminant(geo_a, geo_ray), Zero) => t1 # t2

\* C8 witness: two distinct roots are returned, the first one negative and so
\* outside every interval the program queries.
C8_Witness ==
    /\ geo_pc = "compute_ray_intersection"
    /\ IsSome(geo_roots)
    /\ RLt(Unwrap(geo_roots)[1], Zero)
    /\ RLt(Unwrap(geo_roots)[1], Unwrap(geo_roots)[2])
    /\ ~Contains(geo_range, Unwrap(geo_roots)[1])

\* The roots of the sphere that lie inside the queried interval.
RootsInside(sphere, ray, t_range) ==
    LET ts == compute_ray_intersection(sphere, ray)
    IN  IF IsNone(ts) THEN {}
        ELSE { t \in { Unwrap(ts)[1], Unwrap(ts)[2] } : Contains(t_range, t) }

\* C9: SphereObject::hit_test returns the hit at the smallest root inside the
\* queried interval (none when no root is inside), with point = origin + t*direction
\* and normal = (point - center) scaled to length 1.
C9_SphereHit ==
    geo_pc = "SphereObject::hit_test" =>
        LET inside == RootsInside(geo_a, geo_ray, geo_range)
        IN  /\ IsNone(geo_hit) <=> inside = {}
            /\ IsSome(geo_hit) =>
                  LET h == Unwrap(geo_hit)
                  IN  /\ h.t \in inside
                      /\ \A t \in inside : RLe(h.t, t)
                      /\ h.point = HAdd(geo_ray.origin, HMul(geo_ray.direction, h.t))
                      /\ HDot(h.normal, h.normal) = One
                      /\ HMul(h.normal, geo_a.radius) = HSub(h.point, geo_a.center)

\* C9 witness: the ray starts inside the sphere, so the first root is outside the
\* interval and the hit is at the second root.
C9_Witness ==
    /\ geo_pc = "SphereObject::hit_test"
    /\ IsSome(geo_hit)
    /\ LET ts == Unwrap(compute_ray_intersection(geo_a, geo_ray))
       IN  /\ ~Contains(geo_range, ts[1])
           /\ Unwrap(geo_hit).t = ts[2]

(***************************************************************************)
(* Properties of the boolean object.                                       *)
(***************************************************************************)
\* The ray interval of a sphere, when the ray meets it.
RayInterval(sphere, ray) == compute_ray_intersection(sphere, ray)

\* The two ray intervals exist and share at least one parameter t.
IntervalsOverlap(ia, ib) ==
    /\ IsSome(ia)
    /\ IsSome(ib)
    /\ RLe(RMax(Unwrap(ia)[1], Unwrap(ib)[1]), RMin(Unwrap(ia)[2], Unwrap(ib)[2]))

\* The distance between the centres exceeds the sum of the radii.
SpheresDisjoint(sa, sb) ==
    LET cc == HSub(sa.center, sb.center)
        rr == RAdd(sa.radius, sb.radius)
    IN  RGt(HDot(cc, cc), RMul(rr, rr))

\* C10: for INTERSECTION, hit_test reports no hit whenever the two spheres' ray
\* intervals do not overlap (one sphere missed, or the intervals apart), so always
\* when the spheres are disjoint; when the intervals overlap the break points are
\* exactly (later start, earlier end).
C10_IntersectionBreaks ==
    (geo_pc = "BooleanOperationSpheresObject::hit_test" /\ geo_op = "INTERSECTION") =>
        LET ia == RayInterval(geo_a, geo_ray)
            ib == RayInterval(geo_b, geo_ray)
        IN  /\ ~IntervalsOverlap(ia, ib) => (geo_hit = None /\ geo_breaks = << >>)
            /\ SpheresDisjoint(geo_a, geo_b) => geo_hit = None
            /\ IntervalsOverlap(ia, ib) =>
                  /\ Len(geo_breaks) = 2
                  /\ geo_breaks[1].t = RMax(Unwrap(ia)[1], Unwrap(ib)[1])
                  /\ geo_breaks[2].t = RMin(Unwrap(ia)[2], Unwrap(ib)[2])

\* C10 witness: disjoint spheres both met by the ray, sphere_a's entry inside the
\* queried interval, and no hit reported.
C10_Witness ==
    /\ geo_pc = "BooleanOperationSpheresObject::hit_test"
    /\ geo_op = "INTERSECTION"
    /\ SpheresDisjoint(geo_a, geo_b)
    /\ IsSome(RayInterval(geo_a, geo_ray))
    /\ IsSome(RayInterval(geo_b, geo_ray))
    /\ Contains(geo_range, Unwrap(RayInterval(geo_a, geo_ray))[1])
    /\ geo_hit = None

\* The t values of a list of break points.
BreakTimes(bps) == [k \in DOMAIN bps |-> bps[k].t]

\* The list is in ascending order of t.
Ascending(ts) == \A k \in 1..(Len(ts) - 1) : RLe(ts[k], ts[k + 1])

\* The hit is the first break point of the list inside the queried interval, and
\* there is none exactly when no break point lies inside it.
FirstBreakInside(bps, t_range, hit) ==
    LET inside == { k \in DOMAIN bps : Contains(t_range, bps[k].t) }
    IN  /\ IsNone(hit) <=> inside = { }
        /\ IsSome(hit) =>
              \E k \in inside :
                 /\ Unwrap(hit).t = bps[k].t
                 /\ \A j \in inside : j >= k /\ RLe(bps[k].t, bps[j].t)

\* The ends of [a0, a1] minus (b0, b1), in ascending order: what is left of A
\* before B begins, then what is left of A after B ends.
IntervalMinus(a, b) ==
    (IF RGt(b[1], a[1]) THEN << a[1], RMin(a[2], b[1]) >> ELSE << >>)
    \o (IF RLt(b[2], a[2]) THEN << RMax(a[1], b[2]), a[2] >> ELSE << >>)

\* C11: for SUBTRACTION A - B, when the ray meets A the break points are exactly
\* the ascending ends of A's interval minus B's open interval (A's interval
\* unchanged when B is missed or apart; (a0, b0) when B reaches past A's end;
\* (a0, b0), (b1, a1) when B is nested; (b1, a1) when B covers A's start; none
\* when B covers A); the hit is the first of them inside the queried interval, so
\* it is never strictly inside B's interval; when the ray misses A there is no hit.
C11_SubtractionBreaks ==
    (geo_pc = "BooleanOperationSpheresObject::hit_test" /\ geo_op = "SUBTRACTION") =>
        LET ia == RayInterval(geo_a, geo_ray)
            ib == RayInterval(geo_b, geo_ray)
        IN  /\ IsNone(ia) => geo_hit = None
            /\ (IsSome(ia) /\ IsNone(ib)) => BreakTimes(geo_breaks) = Unwrap(ia)
            /\ (IsSome(ia) /\ IsSome(ib)) =>
                  /\ BreakTimes(geo_breaks) = IntervalMinus(Unwrap(ia), Unwrap(ib))
                  /\ IsSome(geo_hit) =>
                        ~(RLt(Unwrap(ib)[1], Unwrap(geo_hit).t)
                          /\ RLt(Unwrap(geo_hit).t, Unwrap(ib)[2]))
            /\ IsSome(ia) =>
                  /\ Ascending(BreakTimes(geo_breaks))
                  /\ FirstBreakInside(geo_breaks, geo_range, geo_hit)

\* C11 witness: B's interval is nested strictly inside A's, the queried interval
\* begins inside B, and the hit is reported where B ends.
C11_Witness ==
    /\ geo_pc = "BooleanOperationSpheresObject::hit_test"
    /\ geo_op = "SUBTRACTION"
    /\ IsSome(RayInterval(geo_a, geo_ray))
    /\ IsSome(RayInterval(geo_b, geo_ray))
    /\ LET a == Unwrap(RayInterval(geo_a, geo_ray))
           b == Unwrap(RayInterval(geo_b, geo_ray))
       IN  /\ RLt(a[1], b[1])
           /\ RLt(b[2], a[2])
           /\ RLt(b[1], geo_range.start)
           /\ Len(geo_breaks) = 4
           /\ IsSome(geo_hit)
           /\ Unwrap(geo_hit).t = b[2]

\* C12: for UNION, when the ray meets both spheres the break points are the
\* outer envelope of the two intervals: both ends of the earlier interval and
\* then both ends of the later one when they are apart, the earliest start and
\* the latest end when they overlap.  In every case the list is in ascending
\* order of t and the hit is the smallest break point inside the queried
\* interval.
C12_UnionEnvelope ==
    (geo_pc = "BooleanOperationSpheresObject::hit_test" /\ geo_op = "UNION") =>
        LET ia == RayInterval(geo_a, geo_ray)
            ib == RayInterval(geo_b, geo_ray)
        IN  /\ (IsSome(ia) /\ IsSome(ib)) =>
                  LET a == Unwrap(ia)
                      b == Unwrap(ib)
                  IN  BreakTimes(geo_breaks) =
                         IF RLt(a[2], b[1]) THEN << a[1], a[2], b[1], b[2] >>
                         ELSE IF RLt(b[2], a[1]) THEN << b[1], b[2], a[1], a[2] >>
                         ELSE << RMin(a[1], b[1]), RMax(a[2], b[2]) >>
            /\ (IsNone(ia) /\ IsNone(ib)) => geo_hit = None
            /\ Ascending(BreakTimes(geo_breaks))
            /\ (IsSome(ia) \/ IsSome(ib)) =>
                  FirstBreakInside(geo_breaks, geo_range, geo_hit)

\* C12 witness: both spheres are met, sphere_b's interval lies wholly before
\* sphere_a's, and a hit is reported.
C12_Witness ==
    /\ geo_pc = "BooleanOperationSpheresObject::hit_test"
    /\ geo_op = "UNION"
    /\ IsSome(RayInterval(geo_a, geo_ray))
    /\ IsSome(RayInterval(geo_b, geo_ray))
    /\ RLt(Unwrap(RayInterval(geo_b, geo_ray))[2], Unwrap(RayInterval(geo_a, geo_ray))[1])
    /\ Len(geo_breaks) = 4
    /\ IsSome(geo_hit)

(***************************************************************************)
(* Properties of the canvas.  Every step records the operation it applied  *)
(* in cv_last, so cv_last' names the operation of a step.                  *)
(***************************************************************************)
\* C6: invalid canvas arguments abort at once: Canvas::new aborts exactly when
\* width = 0 or height = 0; set_pixel(x, y, c) with x >= width or y >= height
\* aborts and leaves both buffers as they were; with in-range coordinates it
\* changes the pixel at index y*width + x, and only that one, to the clamped
\* colour.  Nothing runs after an abort.
C6_FailFast ==
    [][ /\ cv_state # "aborted"
        /\ cv_last'.op = "new" =>
              (cv_state' = "aborted" <=> (cv_last'.width = 0 \/ cv_last'.height = 0))
        /\ cv_last'.op = "set_pixel" =>
              LET x == cv_last'.x
                  y == cv_last'.y
              IN  IF x >= cv_width \/ y >= cv_height
                  THEN /\ cv_state' = "aborted"
                       /\ image_data' = image_data
                       /\ depth_buffer' = depth_buffer
                  ELSE /\ cv_state' = "live"
                       /\ DOMAIN image_data' = DOMAIN image_data
                       /\ image_data'[y * cv_width + x] = clamp(cv_last'.color)
                       /\ \A i \in DOMAIN image_data :
                             i # y * cv_width + x => image_data'[i] = image_data[i]
                       /\ depth_buffer' = depth_buffer
      ]_vars

\* C6 witness: set_pixel aborted on an x beyond the width whose y*width + x is
\* still an index of the buffer.
C6_Witness ==
    /\ cv_state = "aborted"
    /\ cv_last.op = "set_pixel"
    /\ cv_last.x >= cv_width
    /\ cv_last.y < cv_height
    /\ cv_last.y * cv_width + cv_last.x < cv_width * cv_height

\* The buffer index a fragment at centred (x, y) addresses; None off the canvas.
FragmentIndex(x, y) ==
    LET pos == CanvasPosition(cv_width, cv_height, x, y)
    IN  IF IsNone(pos) THEN None
        ELSE Some(Unwrap(pos)[2] * cv_width + Unwrap(pos)[1])

\* C7: in the depth-buffered fill a pixel's colour and depth entry are overwritten
\* only by a fragment whose inverse depth is strictly greater than the stored
\* value (0 after construction), and then both are; a fragment with a smaller or
\* equal inverse depth leaves both unchanged.  No depth entry ever decreases.
C7_DepthTest ==
    [][ /\ (cv_last'.op = "new" /\ cv_state' = "live") =>
              \A i \in DOMAIN depth_buffer' : depth_buffer'[i] = Zero
        /\ cv_state = "live" =>
              /\ DOMAIN depth_buffer' = DOMAIN depth_buffer
              /\ \A i \in DOMAIN depth_buffer : RLe(depth_buffer[i], depth_buffer'[i])
        /\ cv_last'.op = "fragment" =>
              \A i \in DOMAIN depth_buffer :
                 IF /\ FragmentIndex(cv_last'.x, cv_last'.y) = Some(i)
                    /\ RGt(cv_last'.iz, depth_buffer[i])
                 THEN /\ depth_buffer'[i] = cv_last'.iz
                      /\ image_data'[i] = clamp(cv_last'.color)
                 ELSE /\ depth_buffer'[i] = depth_buffer[i]
                      /\ image_data'[i] = image_data[i]
      ]_vars

\* C7 witness: a fragment of another colour, exactly as near as the positive
\* depth already stored at its pixel, was rejected.
C7_Witness ==
    /\ cv_last.op = "fragment"
    /\ ~cv_last.updated
    /\ IsSome(FragmentIndex(cv_last.x, cv_last.y))
    /\ LET i == Unwrap(FragmentIndex(cv_last.x, cv_last.y))
       IN  /\ depth_buffer[i] = cv_last.iz
           /\ RGt(cv_last.iz, Zero)
           /\ image_data[i] # clamp(cv_last.color)

(***************************************************************************)
(* Properties of render_mth.                                               *)
(***************************************************************************)
\* The column of a pixel index.
ColumnOf(k) == k % cv_width

\* C4: with threads >= 1, under every interleaving, no pixel index is written by
\* two different workers: worker i writes only pixels of columns x with
\* x mod threads = i.
C4_DisjointWrites ==
    rm_threads >= 1 =>
        \A k \in DOMAIN rm_writers :
            \A n \in 1..Len(rm_writers[k]) :
                /\ ColumnOf(k) % rm_threads = rm_writers[k][n]
                /\ rm_writers[k][n] = rm_writers[k][1]

\* C4 witness: two workers are running at once, each having written a pixel, and
\* one of them has written pixels of two different columns.
C4_Witness ==
    \E i, j \in DOMAIN rm_workers :
        /\ i # j
        /\ rm_workers[i].state = "running"
        /\ rm_workers[j].state = "running"
        /\ \E k \in DOMAIN rm_writers : rm_writers[k] = << j >>
        /\ \E k1, k2 \in DOMAIN rm_writers :
              /\ ColumnOf(k1) # ColumnOf(k2)
              /\ rm_writers[k1] = << i >>
              /\ rm_writers[k2] = << i >>

\* C5: with threads >= 1, render_mth returns only after every spawned worker has
\* ended; when it has returned every pixel has been written exactly once; and
\* nothing runs or writes after the return.
C5_JoinAll ==
    /\ [](rm_threads >= 1 /\ rm_pc = "returned" =>
             /\ \A i \in DOMAIN rm_workers : rm_workers[i].state = "done"
             /\ DOMAIN rm_writers = 0..(cv_width * cv_height - 1)
             /\ \A k \in DOMAIN rm_writers : Len(rm_writers[k]) = 1)
    /\ [][rm_pc = "returned" => (image_data' = image_data /\ rm_workers' = rm_workers)]_vars

\* C5 witness: a render with two workers or more, one of them without any column,
\* has returned.
C5_Witness ==
    /\ rm_pc = "returned"
    /\ rm_threads >= 2
    /\ rm_threads > cv_width
    /\ cv_height >= 2

(***************************************************************************)
(* Properties of Scene::trace_ray and Scene::hit_test.                     *)
(***************************************************************************)
\* C1: an invocation of trace_ray with depth = 0 makes no recursive call, neither
\* for reflection nor for refraction, whatever the material it hits: it returns
\* at once, with the background when nothing is hit and otherwise with the
\* material's colour times the summed light intensity.
C1_DepthZeroLocal ==
    [][(IsSome(tr_call) /\ Unwrap(tr_call).depth = 0) =>
          /\ tr_stack' = tr_stack
          /\ tr_call' = None
          /\ tr_invocations' = tr_invocations + 1
          /\ tr_ret' = Some(IF IsNone(tr_last'.result) THEN Background
                            ELSE ColorMul(Unwrap(tr_last'.result).material.color,
                                          tr_last'.lighting))]_vars

\* C1 witness: a recursive call with depth 0 has hit, under some light, the
\* material that is both reflective and transparent, and has returned.
C1_Witness ==
    /\ tr_last.op = "enter"
    /\ tr_last.depth = 0
    /\ tr_stack # << >>
    /\ IsSome(tr_last.result)
    /\ Unwrap(tr_last.result).material = MirrorGlass
    /\ RGt(tr_last.lighting, Zero)
    /\ IsSome(tr_ret)

\* The suspended invocations have depths n, n - 1, ..., all above 0, the call
\* about to run has the depth below them, and the invocations so far fit a
\* binary call tree of depth n.
CallTreeBounded ==
    /\ Len(tr_stack) <= tr_n
    /\ \A k \in 1..Len(tr_stack) :
          /\ tr_stack[k].depth > 0
          /\ tr_stack[k].depth = tr_n - (k - 1)
    /\ IsSome(tr_call) => Unwrap(tr_call).depth = tr_n - Len(tr_stack)
    /\ tr_invocations <= 2 ^ (tr_n + 1) - 1

\* C2: a call trace_ray(depth = n) terminates; every recursive call is made from
\* an invocation with depth > 0 and passes exactly depth - 1, calls nest at most
\* n deep, and at most 2^(n+1) - 1 invocations are made.
C2_Terminates == []CallTreeBounded /\ <>TraceReturned

\* C2 witness: a call with depth n >= 2 has returned after exactly 2^(n+1) - 1
\* invocations, every invocation above depth 0 having made both recursive calls.
C2_Witness ==
    /\ TraceReturned
    /\ tr_n >= 2
    /\ tr_invocations = 2 ^ (tr_n + 1) - 1

\* C3: Scene::hit_test returns no hit exactly when no object reports one, and
\* otherwise a hit of one of the objects whose t is the least of those reported;
\* trace_ray returns the background when there is no hit, whatever the lights
\* and the depth, and otherwise shades the hit it was given with that object's
\* material.
C3_NearestHit ==
    tr_last.op = "enter" =>
        LET times == tr_last.times
            result == tr_last.result
        IN  /\ IsNone(result) <=> \A k \in DOMAIN times : IsNone(times[k])
            /\ IsNone(result) => (tr_ret = Some(Background) /\ tr_call = None)
            /\ IsSome(result) =>
                  LET hit == Unwrap(result)
                      local_color == ColorMul(hit.material.color, tr_last.lighting)
                  IN  /\ hit.object \in DOMAIN times
                      /\ times[hit.object] = Some(hit.t)
                      /\ hit.material = tr_scene[hit.object]
                      /\ \A k \in DOMAIN times :
                            IsSome(times[k]) => RLe(hit.t, Unwrap(times[k]))
                      /\ \/ tr_ret = Some(local_color)
                         \/ /\ tr_stack # << >>
                            /\ tr_stack[Len(tr_stack)].color = local_color

\* C3 witness: the second object of the scene reports a nearer hit than the
\* first, and the scan has returned the second object's hit.
C3_Witness ==
    /\ tr_last.op = "enter"
    /\ Len(tr_scene) >= 2
    /\ tr_last.times[1] = Some(Int2R(2))
    /\ tr_last.times[2] = Some(One)
    /\ IsSome(tr_last.result)
    /\ Unwrap(tr_last.result).object = 2

(***************************************************************************)
(* Properties of the polyhedron and its triangles.                         *)
(***************************************************************************)
\* The same triangles in another order.
Reordered(mesh) ==
    { m \in Meshes : Len(m) = Len(mesh)
                     /\ { m[k] : k \in DOMAIN m } = { mesh[k] : k \in DOMAIN mesh } }

\* C13: PolyhedronObject::hit_test returns the least t, among the intersections
\* its triangles report for the ray, that lies inside the queried interval, and
\* no hit exactly when none lies inside it; the t returned is the same for every
\* order of the triangles in the mesh.
C13_NearestTriangle ==
    fn_pc = "PolyhedronObject::hit_test" =>
        LET ts == fn_result.intersections
            hit == fn_result.hit
            inside == { k \in DOMAIN ts :
                          IsSome(ts[k]) /\ Contains(fn_args.t_range, Unwrap(ts[k])) }
        IN  /\ IsNone(hit) <=> inside = { }
            /\ IsSome(hit) =>
                  /\ \E k \in inside :
                        /\ Unwrap(hit).t = Unwrap(ts[k])
                        /\ Unwrap(hit).normal = fn_args.object.triangles[k].normal
                  /\ \A j \in inside : RLe(Unwrap(hit).t, Unwrap(ts[j]))
                  /\ Unwrap(hit).material = fn_args.object.material
            /\ \A m \in Reordered(fn_args.object.triangles) :
                  LET other == PolyhedronObject_hit_test(
                                   [fn_args.object EXCEPT !.triangles = m],
                                   fn_args.ray, fn_args.t_range)
                  IN  /\ IsNone(other) <=> IsNone(hit)
                      /\ IsSome(other) => Unwrap(other).t = Unwrap(hit).t

\* C13 witness: the first triangle of the mesh is hit farther away than the
\* second, both inside the queried interval, and the second one's t is returned.
C13_Witness ==
    /\ fn_pc = "PolyhedronObject::hit_test"
    /\ Len(fn_result.intersections) >= 2
    /\ IsSome(fn_result.intersections[1])
    /\ IsSome(fn_result.intersections[2])
    /\ RLt(Unwrap(fn_result.intersections[2]), Unwrap(fn_result.intersections[1]))
    /\ Contains(fn_args.t_range, Unwrap(fn_result.intersections[2]))
    /\ Contains(fn_args.t_range, Unwrap(fn_result.intersections[1]))
    /\ IsSome(fn_result.hit)
    /\ Unwrap(fn_result.hit).t = Unwrap(fn_result.intersections[2])

\* The vertices two triangles have in common.
Vertices(triangle) == { triangle.a, triangle.b, triangle.c }
SharedVertices(t1, t2) == Vertices(t1) \cap Vertices(t2)

\* The point where the ray's line crosses the plane of the triangle, when the
\* line is not parallel to it.
PlaneCrossing(triangle, ray) ==
    LET denom == HDot(triangle.normal, ray.direction)
    IN  IF denom = Zero THEN None
        ELSE Some(HAdd(ray.origin,
                       HMul(ray.direction,
                            RDiv(HDot(triangle.normal, HSub(triangle.a, ray.origin)),
                                 denom))))

\* The point p lies on the segment from p0 to p1.
OnSegment(p, p0, p1) ==
    LET along == HSub(p1, p0)
        to == HSub(p, p0)
    IN  /\ HCross(to, along) = Vec(0, 0, 0)
        /\ RLe(Zero, HDot(to, along))
        /\ RLe(HDot(to, along), HDot(along, along))

\* The ray's line passes through the edge that triangles i and j of the mesh share.
HitsSharedEdge(mesh, ray, i, j) ==
    /\ i # j
    /\ Cardinality(SharedVertices(mesh[i], mesh[j])) = 2
    /\ IsSome(PlaneCrossing(mesh[i], ray))
    /\ \E p0, p1 \in SharedVertices(mesh[i], mesh[j]) :
          p0 # p1 /\ OnSegment(Unwrap(PlaneCrossing(mesh[i], ray)), p0, p1)

\* C14: a ray hitting exactly the edge shared by two adjacent triangles of the
\* mesh is reported by Triangle::compute_ray_intersection for exactly one of the
\* two triangles, never for both and never for neither.
C14_SharedEdgeOnce ==
    fn_pc = "PolyhedronObject::hit_test" =>
        \A i, j \in DOMAIN fn_args.object.triangles :
            HitsSharedEdge(fn_args.object.triangles, fn_args.ray, i, j) =>
                IsSome(fn_result.intersections[i]) # IsSome(fn_result.intersections[j])

(***************************************************************************)
(* Properties of the lights.                                               *)
(***************************************************************************)
\* The ray from the shaded point towards the light.
ShadowRay ==
    [origin |-> fn_args.point,
     direction |-> IF fn_args.light.kind = "PointLight"
                   THEN HSub(fn_args.light.position, fn_args.point)
                   ELSE fn_args.light.direction]

\* The t at which the shadow ray crosses the surface of some object of the scene.
SurfaceCrossings ==
    UNION { LET ts == compute_ray_intersection(fn_args.objects[k].sphere, ShadowRay)
            IN  IF IsNone(ts) THEN { } ELSE { Unwrap(ts)[1], Unwrap(ts)[2] }
          : k \in DOMAIN fn_args.objects }

\* What the light gives when nothing is in the way.
Unshadowed ==
    RMul(fn_args.light.intensity,
         compute_light_factor(fn_args.normal, ShadowRay.direction, fn_args.view,
                              fn_args.specular))

\* C15 as stated: a point light contributes 0 exactly when some object is hit
\* with t in (EPS, 1], a directional light exactly when some object is hit with
\* t in (EPS, infinity), and an ambient light always contributes its intensity.
C15_ZeroIffShadowed ==
    fn_pc = "LightObject::intensity_from" =>
        /\ fn_args.light.kind = "PointLight" =>
              (fn_result.intensity = Zero
                  <=> \E t \in SurfaceCrossings : RLt(EPS, t) /\ RLe(t, One))
        /\ fn_args.light.kind = "DirectionalLight" =>
              (fn_result.intensity = Zero
                  <=> \E t \in SurfaceCrossings : RLt(EPS, t) /\ RLt(t, PosInf))
        /\ fn_args.light.kind = "AmbientLight" =>
              fn_result.intensity = fn_args.light.intensity

\* C15, amended: a point light contributes 0 when some object is hit with t in
\* [EPS, 1] and a directional light when some object is hit with t in
\* [EPS, infinity], EPS included; otherwise each contributes its intensity times
\* the light factor, which is itself 0 for a surface facing away from the light;
\* an ambient light always contributes its intensity.
C15_ShadowedIsZero ==
    fn_pc = "LightObject::intensity_from" =>
        /\ fn_args.light.kind = "PointLight" =>
              fn_result.intensity =
                  IF \E t \in SurfaceCrossings : RLe(EPS, t) /\ RLe(t, One)
                  THEN Zero ELSE Unshadowed
        /\ fn_args.light.kind = "DirectionalLight" =>
              fn_result.intensity =
                  IF \E t \in SurfaceCrossings : RLe(EPS, t) /\ RLe(t, PosInf)
                  THEN Zero ELSE Unshadowed
        /\ fn_args.light.kind = "AmbientLight" =>
              fn_result.intensity = fn_args.light.intensity

\* C15 witness: a point light whose only occluder is met at t = EPS exactly, on a
\* surface facing the light, contributes 0.
C15_Witness ==
    /\ fn_pc = "LightObject::intensity_from"
    /\ fn_args.light.kind = "PointLight"
    /\ EPS \in SurfaceCrossings
    /\ \A t \in SurfaceCrossings : t = EPS \/ RLt(t, EPS) \/ RGt(t, One)
    /\ Unshadowed # Zero
    /\ fn_result.intensity = Zero

(***************************************************************************)
(* Properties of interpolate.                                              *)
(***************************************************************************)
\* C16: for i0 <= i1, interpolate returns i1 - i0 + 1 values, the k-th (from 0)
\* being d0 + k (d1 - d0) / (i1 - i0), so the first is d0 and the last d1; for
\* i0 = i1 it returns the single value d0, whatever d1 is.
C16_Interpolate ==
    (fn_pc = "interpolate" /\ fn_args.i0 <= fn_args.i1) =>
        /\ Len(fn_result) = fn_args.i1 - fn_args.i0 + 1
        /\ fn_args.i0 = fn_args.i1 => fn_result = << fn_args.d0 >>
        /\ fn_args.i0 < fn_args.i1 =>
              /\ \A k \in 0..(fn_args.i1 - fn_args.i0) :
                    fn_result[k + 1] =
                        RAdd(fn_args.d0,
                             RDiv(RMul(Int2R(k), RSub(fn_args.d1, fn_args.d0)),
                                  Int2R(fn_args.i1 - fn_args.i0)))
              /\ fn_result[1] = fn_args.d0
              /\ fn_result[Len(fn_result)] = fn_args.d1

\* C16 witness: three or more values between different ends, the middle ones
\* strictly between them.
C16_Witness ==
    /\ fn_pc = "interpolate"
    /\ fn_args.i1 - fn_args.i0 >= 2
    /\ RLt(fn_args.d0, fn_args.d1)
    /\ Len(fn_result) = fn_args.i1 - fn_args.i0 + 1
    /\ RLt(fn_args.d0, fn_result[2]) /\ RLt(fn_result[2], fn_args.d1)

(***************************************************************************)
(* Properties of clip_model.                                               *)
(***************************************************************************)
\* The signed distances of the three vertices of the triangle to the plane.
ClipDistances ==
    [k \in 1..3 |-> Plane_signed_distance(fn_args.clipping_planes[1],
                                          fn_args.model.vertices[k])]
StrictlyInside == { k \in 1..3 : RGt(ClipDistances[k], Zero) }
StrictlyOutside == { k \in 1..3 : RLt(ClipDistances[k], Zero) }

\* The triangles clip_model returns, none when it returns None.
ClippedTriangles == IF IsNone(fn_result) THEN << >> ELSE Unwrap(fn_result).triangles

ColourKept ==
    \A k \in DOMAIN ClippedTriangles :
        ClippedTriangles[k].color = fn_args.model.triangles[1].color

\* C17 as stated: with inside meaning a nonnegative signed distance, no triangle
\* when all three vertices are outside, the triangle unchanged when all are
\* inside, 2 triangles when one is outside and 1 triangle when two are outside,
\* each of the colour of the input triangle.
C17_ClipCases ==
    fn_pc = "Canvas::clip_model" =>
        /\ Cardinality(StrictlyOutside) = 3 => Len(ClippedTriangles) = 0
        /\ Cardinality(StrictlyOutside) = 0 =>
              ClippedTriangles = fn_args.model.triangles
        /\ Cardinality(StrictlyOutside) = 1 => Len(ClippedTriangles) = 2
        /\ Cardinality(StrictlyOutside) = 2 => Len(ClippedTriangles) = 1
        /\ ColourKept

\* C17, amended: no triangle when no vertex has a positive signed distance; the
\* triangle unchanged when none has a negative and some vertex a positive one;
\* otherwise 2 triangles when two vertices have a positive distance and 1
\* triangle when only one has; each of the colour of the input triangle.
C17_ClipCasesStrict ==
    fn_pc = "Canvas::clip_model" =>
        /\ Cardinality(StrictlyInside) = 0 => Len(ClippedTriangles) = 0
        /\ (Cardinality(StrictlyInside) > 0 /\ Cardinality(StrictlyOutside) = 0) =>
              ClippedTriangles = fn_args.model.triangles
        /\ (Cardinality(StrictlyInside) = 2 /\ Cardinality(StrictlyOutside) = 1) =>
              Len(ClippedTriangles) = 2
        /\ (Cardinality(StrictlyInside) = 1 /\ Cardinality(StrictlyOutside) > 0) =>
              Len(ClippedTriangles) = 1
        /\ ColourKept

\* C17 witness: one vertex inside, one on the plane and one outside; a single
\* triangle comes out, with two new vertices on the plane.
C17_Witness ==
    /\ fn_pc = "Canvas::clip_model"
    /\ Cardinality(StrictlyInside) = 1
    /\ Cardinality(StrictlyOutside) = 1
    /\ Len(ClippedTriangles) = 1
    /\ Len(Unwrap(fn_result).vertices) = 5
    /\ \A k \in 4..5 :
          Plane_signed_distance(fn_args.clipping_planes[1],
                                Unwrap(fn_result).vertices[k]) = Zero

(***************************************************************************)
(* Properties of rasterize.                                                *)
(***************************************************************************)
\* The vertices of the instance in camera space.
CameraSpaceVertices ==
    [k \in DOMAIN fn_args.model.vertices |->
        Matrix_dot(MatMul(get_camera_matrix(fn_args.scene), fn_args.instance.transform),
                   fn_args.model.vertices[k])]

\* Every vertex has a negative signed distance to one and the same clip plane.
WhollyOutside ==
    \E k \in DOMAIN get_clipping_planes(fn_args.scene) :
        \A v \in DOMAIN CameraSpaceVertices :
            RLt(Plane_signed_distance(get_clipping_planes(fn_args.scene)[k],
                                      CameraSpaceVertices[v]), Zero)

\* C18: rasterizing a single triangle whose camera-space vertices are all
\* strictly outside one clip plane leaves the pixel buffer and the depth buffer
\* as they were.
C18_CulledWritesNothing ==
    (fn_pc = "Canvas::rasterize" /\ WhollyOutside) =>
        /\ image_data = cv_last.image_data
        /\ depth_buffer = cv_last.depth_buffer

\* C18 witness: a triangle that faces the camera and lies wholly outside a side
\* plane while its bounding sphere still crosses that plane, so that it is
\* dropped by the loop over the triangles, has been rasterized.
C18_Witness ==
    /\ fn_pc = "Canvas::rasterize"
    /\ WhollyOutside
    /\ IsSome(intersection_planes_from(
                  get_clipping_planes(fn_args.scene),
                  get_bounding_sphere([vertices |-> CameraSpaceVertices]), 1, << >>))
    /\ \A v \in DOMAIN CameraSpaceVertices : RGt(CameraSpaceVertices[v][3], One)
    /\ image_data = cv_last.image_data
    /\ depth_buffer = cv_last.depth_buffer

\* Some triangle inside the frustum is drawn.
RasterDraws ==
    /\ fn_pc = "Canvas::rasterize"
    /\ image_data # cv_last.image_data

\* C19: when trace_ray, at a depth above 0, has hit a transparent material and
\* computed d = 1 - k^2 (1 - cos^2) below 0, it returns opaque_color as it
\* stands and traces no refracted ray: no call is pending and no frame has been
\* pushed on its callers'.
C19_TotalInternalReflection ==
    (IsSome(tr_refraction) /\ RLt(Unwrap(tr_refraction).d, Zero)) =>
        LET r == Unwrap(tr_refraction)
        IN  /\ r.depth > 0
            /\ IsSome(r.transparency)
            /\ tr_ret = Some(r.opaque_color)
            /\ tr_call = None
            /\ Len(tr_stack) = r.callers

\* A ray that entered an object of refraction index 2 grazes, at depth 1, an
\* object of index 3/2 lying inside it: k = 4/3, d = 1 - 16/9 is negative and
\* the invocation has returned to the one that traced it.
C19_Witness ==
    /\ IsSome(tr_refraction)
    /\ RLt(Unwrap(tr_refraction).d, Zero)
    /\ Unwrap(tr_refraction).depth > 0
    /\ IsSome(Unwrap(tr_refraction).transparency)
    /\ tr_stack # << >>
    /\ tr_ret = Some(Unwrap(tr_refraction).opaque_color)

\* The matrices of m applied to p one after the other, the last of m first.
RECURSIVE LastFirst(_, _)
LastFirst(m, p) ==
    IF m = << >> THEN p
    ELSE LastFirst(SubSeq(m, 1, Len(m) - 1), Matrix_dot(m[Len(m)], p))

\* C20: compose(m).dot(v) is the matrices of m applied to v with the last of m
\* first, so compose([A, B, C]).dot(v) = A.dot(B.dot(C.dot(v))); compose of the
\* empty list is the identity; and the camera matrix moves a coordinate by
\* minus the camera position first and turns it by the transposed camera
\* rotation second.
C20_ComposeRightmostFirst ==
    /\ fn_pc = "compose" =>
          /\ fn_result.image = LastFirst(fn_args.m, fn_args.rhs)
          /\ Len(fn_args.m) = 3 =>
                fn_result.image =
                    Matrix_dot(fn_args.m[1],
                        Matrix_dot(fn_args.m[2], Matrix_dot(fn_args.m[3], fn_args.rhs)))
          /\ fn_args.m = << >> => fn_result.matrix = identity
    /\ fn_pc = "get_camera_matrix" =>
          LET pos == fn_args.scene.camera_position
          IN  fn_result.image =
                  Matrix_dot(transposed(fn_args.scene.camera_rotation),
                      Matrix_dot(translation(RNeg(pos[1]), RNeg(pos[2]), RNeg(pos[3])),
                                 fn_args.rhs))

\* Three matrices whose order matters have been composed and applied to a
\* point: a translation, a quarter turn and a scaling, which give another
\* point when applied the first of them first.
C20_Witness ==
    /\ fn_pc = "compose"
    /\ Len(fn_args.m) = 3
    /\ fn_args.m[1] # fn_args.m[2]
    /\ fn_args.m[2] # fn_args.m[3]
    /\ fn_result.image #
          Matrix_dot(fn_args.m[3],
              Matrix_dot(fn_args.m[2], Matrix_dot(fn_args.m[1], fn_args.rhs)))

(***************************************************************************)
(* Properties of solve_equations.                                          *)
(***************************************************************************)
\* The determinant of a 3x3 matrix, by its first row.
Determinant(m) ==
    RAdd(RSub(RMul(m[1][1], RSub(RMul(m[2][2], m[3][3]), RMul(m[2][3], m[3][2]))),
              RMul(m[1][2], RSub(RMul(m[2][1], m[3][3]), RMul(m[2][3], m[3][1])))),
         RMul(m[1][3], RSub(RMul(m[2][1], m[3][2]), RMul(m[2][2], m[3][1]))))

\* The product of a 3x3 matrix and a vector.
Applied(m, x) ==
    [i \in 1..3 |-> RAdd(RAdd(RMul(m[i][1], x[1]), RMul(m[i][2], x[2])),
                         RMul(m[i][3], x[3]))]

\* C21: solve_equations returns a solution x with A * x = rhs whenever A is not
\* singular, and returns none only when A is singular.
C21_SolvesNonSingular ==
    fn_pc = "solve_equations" =>
        /\ Determinant(fn_args.coefficients) # Zero =>
              /\ IsSome(fn_result.solution)
              /\ Applied(fn_args.coefficients, Unwrap(fn_result.solution)) = fn_args.rhs
        /\ IsNone(fn_result.solution) => Determinant(fn_args.coefficients) = Zero

(***************************************************************************)
(* Properties of the normals of BooleanOperationSpheresObject::hit_test.   *)
(***************************************************************************)
\* The sphere a break point names.
SphereOf(b) == IF b.sphere = "a" THEN geo_a ELSE geo_b

\* Two vectors lie along one line.
Parallel(u, v) == HCross(u, v) = << Zero, Zero, Zero, Zero >>

\* The number, from 0, of the break point that made the hit: the first one
\* inside the interval.
WinningIndex ==
    (CHOOSE k \in DOMAIN geo_breaks :
        /\ Contains(geo_range, geo_breaks[k].t)
        /\ \A j \in 1..(k - 1) : ~Contains(geo_range, geo_breaks[j].t)) - 1

\* C22: every break point that is a point of the ray pairs its t with a
\* sphere on whose surface origin + t * direction lies, and the normal of a hit
\* lies along the line from the centre of the winning break point's sphere to
\* the hit point.
C22_OwningSphere ==
    geo_pc = "BooleanOperationSpheresObject::hit_test" =>
        /\ \A k \in DOMAIN geo_breaks :
              geo_breaks[k].t.d # 0 =>
                  OnSphere(SphereOf(geo_breaks[k]), geo_ray, geo_breaks[k].t)
        /\ IsSome(geo_hit) =>
              \E s \in { geo_a, geo_b } :
                  /\ OnSphere(s, geo_ray, Unwrap(geo_hit).t)
                  /\ Unwrap(geo_hit).normal # << NaN, NaN, NaN, NaN >>
                  /\ Parallel(Unwrap(geo_hit).normal,
                              HSub(Unwrap(geo_hit).point, s.center))

\* normal . ray.direction of the hit.
NormalAlongRay == HDot(Unwrap(geo_hit).normal, geo_ray.direction)

\* C23 as stated: the normal of every hit has normal . ray.direction <= 0.
C23_NormalFacesOrigin ==
    (geo_pc = "BooleanOperationSpheresObject::hit_test" /\ IsSome(geo_hit)) =>
        RLe(NormalAlongRay, Zero)

\* C23, amended: the normal of a hit made by a break point of even number (an
\* entry into the solid) has normal . ray.direction <= 0, and that of a hit made
\* by a break point of odd number (an exit) has normal . ray.direction >= 0;
\* the normal is NaN, and neither holds, when the hit point is the centre of
\* the break point's sphere.
C23_NormalByParity ==
    (geo_pc = "BooleanOperationSpheresObject::hit_test" /\ IsSome(geo_hit)) =>
        IF Unwrap(geo_hit).point = SphereOf(geo_breaks[WinningIndex + 1]).center
        THEN NormalAlongRay = NaN
        ELSE IF WinningIndex % 2 = 0
        THEN RLe(NormalAlongRay, Zero)
        ELSE RGe(NormalAlongRay, Zero)

\* C23 witness: a ray that starts inside the solid leaves it at a break point of
\* odd number, where the normal points along the ray.
C23_Witness ==
    /\ geo_pc = "BooleanOperationSpheresObject::hit_test"
    /\ IsSome(geo_hit)
    /\ WinningIndex % 2 = 1
    /\ RGt(NormalAlongRay, Zero)

(***************************************************************************)
(* Properties of clip_model with several planes.                           *)
(***************************************************************************)
\* The signed distance of the centre of the model's bounding sphere to plane k.
CentreDistance(k) ==
    Plane_signed_distance(fn_args.clipping_planes[k],
                          get_bounding_sphere(fn_args.model).center)
BoundingRadius == get_bounding_sphere(fn_args.model).radius

\* The planes the bounding sphere straddles, in the order of the list.
RECURSIVE StraddledFrom(_)
StraddledFrom(k) ==
    IF k > Len(fn_args.clipping_planes) THEN << >>
    ELSE (IF RLe(RNeg(BoundingRadius), CentreDistance(k))
             /\ RLt(CentreDistance(k), BoundingRadius)
          THEN << fn_args.clipping_planes[k] >> ELSE << >>) \o StraddledFrom(k + 1)

\* C24: clip_model returns none when the centre of the bounding sphere is more
\* than the radius behind some plane; else the model unchanged when the centre
\* is at least the radius in front of every plane; else what clipping against
\* the straddled planes alone, in their order, leaves.
C24_BoundingSphereCull ==
    fn_pc = "Canvas::clip_model" =>
        LET planes == DOMAIN fn_args.clipping_planes
        IN  IF \E k \in planes : RLt(CentreDistance(k), RNeg(BoundingRadius))
            THEN fn_result = None
            ELSE IF \A k \in planes : RGe(CentreDistance(k), BoundingRadius)
            THEN fn_result = Some(fn_args.model)
            ELSE LET clipped == clip_planes(StraddledFrom(1), fn_args.model)
                 IN  fn_result = IF Len(clipped.triangles) = 0 THEN None ELSE Some(clipped)

\* C24 witness: of two planes the bounding sphere straddles the second only,
\* and the model comes out clipped against it, with new vertices.
C24_Witness ==
    /\ fn_pc = "Canvas::clip_model"
    /\ Len(fn_args.clipping_planes) = 2
    /\ RGe(CentreDistance(1), BoundingRadius)
    /\ Len(StraddledFrom(1)) = 1
    /\ IsSome(fn_result)
    /\ Len(Unwrap(fn_result).vertices) > Len(fn_args.model.vertices)

\* The model after each of the planes has been processed in turn, from the
\* model as it was given.
RECURSIVE StagesFrom(_, _)
StagesFrom(planes, m) ==
    IF planes = << >> THEN << m >>
    ELSE << m >> \o StagesFrom(Tail(planes), clip_planes(<< Head(planes) >>, m))

\* The triangles of the model m that the plane cuts: some vertex in front of
\* it and some vertex behind it.
CutBy(plane, m) ==
    { i \in DOMAIN m.triangles :
        /\ \E k \in 1..3 :
              RGt(Plane_signed_distance(plane, m.vertices[m.triangles[i].vids[k]]), Zero)
        /\ \E k \in 1..3 :
              RLt(Plane_signed_distance(plane, m.vertices[m.triangles[i].vids[k]]), Zero) }

\* Every index of every triangle of m is an index of its vertex list.
IndicesValid(m) ==
    \A i \in DOMAIN m.triangles :
        \A k \in 1..3 : m.triangles[i].vids[k] \in DOMAIN m.vertices

\* The clipping loop has run: the bounding sphere lies behind no plane and
\* straddles one at least.
ClippingRan ==
    /\ fn_pc = "Canvas::clip_model"
    /\ \A k \in DOMAIN fn_args.clipping_planes :
          ~RLt(CentreDistance(k), RNeg(BoundingRadius))
    /\ StraddledFrom(1) # << >>

\* C25: each plane processed leaves the vertices there were in place and
\* unchanged, appends two vertices for every triangle it cuts and none
\* otherwise, and leaves every index of every triangle inside the vertex list;
\* the model returned is the one left by the last plane.
C25_VerticesOnlyGrow ==
    ClippingRan =>
        LET planes == StraddledFrom(1)
            stages == StagesFrom(planes, fn_args.model)
        IN  /\ \A k \in 1..Len(planes) :
                  /\ SubSeq(stages[k + 1].vertices, 1, Len(stages[k].vertices))
                        = stages[k].vertices
                  /\ Len(stages[k + 1].vertices) = Len(stages[k].vertices)
                        + 2 * Cardinality(CutBy(planes[k], stages[k]))
                  /\ IndicesValid(stages[k + 1])
            /\ IsSome(fn_result) =>
                  /\ Unwrap(fn_result) = stages[Len(planes) + 1]
                  /\ IndicesValid(Unwrap(fn_result))
                  /\ SubSeq(Unwrap(fn_result).vertices, 1, Len(fn_args.model.vertices))
                        = fn_args.model.vertices

\* C25 witness: two planes have each cut a triangle, the second one a triangle
\* the first had made, and the model returned has the vertices they appended.
C25_Witness ==
    /\ ClippingRan
    /\ LET planes == StraddledFrom(1)
           stages == StagesFrom(planes, fn_args.model)
       IN  /\ Len(planes) = 2
           /\ CutBy(planes[1], stages[1]) # { }
           /\ \E i \in CutBy(planes[2], stages[2]) :
                 \E k \in 1..3 :
                     stages[2].triangles[i].vids[k] > Len(fn_args.model.vertices)
    /\ IsSome(fn_result)
    /\ Len(Unwrap(fn_result).vertices) >= Len(fn_args.model.vertices) + 4

(***************************************************************************)
(* render_mth against render.                                              *)
(***************************************************************************)
\* C26: with threads >= 1, whatever the interleaving of the workers, the pixel
\* buffer render_mth leaves at its return is the one the sequential render
\* leaves on a canvas of the same size and content as render_mth was given.
C26_SameAsSequential ==
    (rm_threads >= 1 /\ rm_pc = "returned") =>
        /\ cv_state = "live"
        /\ Some(image_data)
              = render(NewBuffer(cv_width * cv_height, clamp(Background)),
                       cv_width, cv_height)

\* C26 witness: two workers or more have rendered a canvas that has a column
\* for each of them and two rows, every pixel written once.
C26_Witness ==
    /\ rm_pc = "returned"
    /\ rm_threads >= 2
    /\ cv_width >= rm_threads
    /\ cv_height >= 2
    /\ \E k \in DOMAIN image_data : image_data[k] # clamp(Background)
    /\ \A k \in DOMAIN rm_writers : Len(rm_writers[k]) = 1

(***************************************************************************)
(* Properties of draw_shaded_triangle.                                     *)
(***************************************************************************)
\* C27: draw_shaded_triangle does not abort, whatever its three points.
C27_NeverAborts ==
    fn_pc = "Canvas::draw_shaded_triangle" => cv_state = "live"

(***************************************************************************)
(* Properties of the depth-buffered fill.                                  *)
(***************************************************************************)
\* The fragments drawn so far that cover the pixel (cx, cy) of the canvas.
Covering(cx, cy) ==
    { fn_result[k] : k \in { j \in DOMAIN fn_result :
          CanvasPosition(cv_width, cv_height, fn_result[j].at[1], fn_result[j].at[2])
              = Some(<< cx, cy >>) } }

\* The greatest of 0 and the inverse depths of a set of fragments.
Nearest(fragments) ==
    CHOOSE m \in { Zero } \cup { f.iz : f \in fragments } :
        \A f \in fragments : RLe(f.iz, m) /\ RLe(Zero, m)

\* C28: in whatever order the fragments were drawn, the depth entry of every
\* pixel is the greatest of 0 and the inverse depths of the fragments that
\* cover it; its colour is that of the one fragment with that inverse depth
\* when it is positive and no other fragment has it; and a pixel covered only
\* by fragments of inverse depth <= 0 has the colour it had before.
C28_OrderIndependent ==
    (fn_pc = "fill" /\ cv_state = "live") =>
        \A cx \in 0..(cv_width - 1), cy \in 0..(cv_height - 1) :
            LET i == cy * cv_width + cx
                covering == Covering(cx, cy)
                m == Nearest(covering)
                nearest == { f \in covering : f.iz = m }
            IN  /\ depth_buffer[i] = m
                /\ (RGt(m, Zero) /\ Cardinality(nearest) = 1) =>
                       \A f \in nearest : image_data[i] = clamp(f.color)
                /\ (\A f \in covering : RLe(f.iz, Zero)) =>
                       image_data[i] = clamp(Background)

\* C28 witness: two fragments of different positive inverse depths and
\* colours were drawn on one pixel, the nearer one first.
C28_Witness ==
    /\ fn_pc = "fill"
    /\ Len(fn_result) = 2
    /\ fn_result[1].at = fn_result[2].at
    /\ IsSome(CanvasPosition(cv_width, cv_height, fn_result[1].at[1], fn_result[1].at[2]))
    /\ RGt(fn_result[1].iz, fn_result[2].iz)
    /\ RGt(fn_result[2].iz, Zero)
    /\ fn_result[1].color # fn_result[2].color

(***************************************************************************)
(* Properties of the vertices clip_model leaves.                           *)
(***************************************************************************)
\* C29: every vertex of every triangle of the model clip_model returns after
\* clipping lies on the inner side of every plane it clipped against, or on
\* the plane: its signed distance is >= 0.
C29_OutputInsideEveryPlane ==
    (ClippingRan /\ IsSome(fn_result)) =>
        LET planes == StraddledFrom(1)
            m == Unwrap(fn_result)
        IN  \A j \in DOMAIN planes, i \in DOMAIN m.triangles, k \in 1..3 :
                RGe(Plane_signed_distance(planes[j], m.vertices[m.triangles[i].vids[k]]),
                    Zero)

\* C29 witness: two planes were clipped against, the first cut a triangle,
\* and a triangle of the model returned has a vertex that the second appended.
C29_Witness ==
    /\ ClippingRan
    /\ IsSome(fn_result)
    /\ LET planes == StraddledFrom(1)
           stages == StagesFrom(planes, fn_args.model)
           m == Unwrap(fn_result)
       IN  /\ Len(planes) = 2
           /\ CutBy(planes[1], stages[1]) # { }
           /\ \E i \in DOMAIN m.triangles, k \in 1..3 :
                 /\ m.triangles[i].vids[k] > Len(stages[2].vertices)
                 /\ RGt(Plane_signed_distance(planes[1],
                                              m.vertices[m.triangles[i].vids[k]]), Zero)

(***************************************************************************)
(* Properties of the calls of plane.intersection in clip_model.            *)
(***************************************************************************)
\* The segments handed to plane.intersection while the model m is clipped
\* against the plane, triangle after triangle from the i-th on.
RECURSIVE SegmentsFrom(_, _, _)
SegmentsFrom(plane, m, i) ==
    IF i > Len(m.triangles) THEN << >>
    ELSE cut_segments(plane, m.vertices, m.triangles[i]) \o SegmentsFrom(plane, m, i + 1)

\* One end of the segment is in front of the plane and the other is not; the
\* denominator is not zero; the call returns (t, point) with t in [0, 1] and
\* the point on the plane.
GoodCut(plane, a, b) ==
    LET da == Plane_signed_distance(plane, a)
        db == Plane_signed_distance(plane, b)
        hit == Plane_intersection(plane, a, b)
    IN  /\ \/ RGt(da, Zero) /\ RLe(db, Zero)
           \/ RGt(db, Zero) /\ RLe(da, Zero)
        /\ HDot(plane.normal, HSub(b, a)) # Zero
        /\ IsSome(hit)
        /\ RLe(Zero, Unwrap(hit)[1]) /\ RLe(Unwrap(hit)[1], One)
        /\ Plane_signed_distance(plane, Unwrap(hit)[2]) = Zero

\* C30: plane.intersection returns none exactly when normal . (b - a) is 0;
\* every call of it in clip_model is for a segment with one end at a signed
\* distance > 0 and the other at one <= 0, so that the call returns a t in
\* [0, 1] and a point on the plane, and the unwrap succeeds; the vertices a
\* plane appends are the points of these calls, in their order.
C30_IntersectionsSucceed ==
    ClippingRan =>
        LET planes == StraddledFrom(1)
            stages == StagesFrom(planes, fn_args.model)
        IN  \A k \in 1..Len(planes) :
                LET m == stages[k]
                    segments == SegmentsFrom(planes[k], m, 1)
                IN  /\ \A i, j \in DOMAIN m.vertices :
                          IsNone(Plane_intersection(planes[k], m.vertices[i], m.vertices[j]))
                              <=> HDot(planes[k].normal,
                                       HSub(m.vertices[j], m.vertices[i])) = Zero
                    /\ \A s \in DOMAIN segments :
                          GoodCut(planes[k], m.vertices[segments[s][1]],
                                  m.vertices[segments[s][2]])
                    /\ stages[k + 1].vertices = m.vertices \o
                          [s \in DOMAIN segments |->
                              Unwrap(Plane_intersection(planes[k],
                                                        m.vertices[segments[s][1]],
                                                        m.vertices[segments[s][2]]))[2]]

\* C30 witness: two planes have each cut a triangle; the second cut a segment
\* that ends in a vertex the first had appended, and some segment ends on its
\* plane, where t is 1.
C30_Witness ==
    /\ ClippingRan
    /\ LET planes == StraddledFrom(1)
           stages == StagesFrom(planes, fn_args.model)
       IN  /\ Len(planes) = 2
           /\ SegmentsFrom(planes[1], stages[1], 1) # << >>
           /\ LET segments == SegmentsFrom(planes[2], stages[2], 1)
               IN  /\ \E s \in DOMAIN segments :
                         \/ segments[s][1] > Len(fn_args.model.vertices)
                         \/ segments[s][2] > Len(fn_args.model.vertices)
                   /\ \E s \in DOMAIN segments :
                         Unwrap(Plane_intersection(planes[2], stages[2].vertices[segments[s][1]],
                                                   stages[2].vertices[segments[s][2]]))[1] = One

====
